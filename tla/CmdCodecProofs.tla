-------------------------- MODULE CmdCodecProofs --------------------------
(***************************************************************************)
(* Theorems about the text of a request (CmdCodec), for any pieces that a  *)
(* client writes, any number of them, any numbers, any order of the        *)
(* characters and any size of the buffer that holds the answers.           *)
(***************************************************************************)
EXTENDS CmdCodec, SequenceTheorems, FiniteSetTheorems, FunctionTheorems,
        WellFoundedInduction, TLAPS

-----------------------------------------------------------------------------
(* Induction over numbers, in first-order terms.                           *)

\* A set of numbers has a least one.
LEMMA LeastOf ==
  ASSUME NEW T \in SUBSET Nat, T # {}
  PROVE  \E n \in T : \A m \in T : n <= m
<1>1. PICK n \in T : \A m \in T : ~(<<m, n>> \in OpToRel(<, Nat))
  BY NatLessThanWellFounded, WFMin
<1>2. \A m \in T : ~(m < n)
  BY <1>1 DEF OpToRel
<1> QED BY <1>2

\* Induction.
LEMMA UpFromZero ==
  ASSUME NEW S, 0 \in S, \A n \in Nat : n \in S => n + 1 \in S
  PROVE  \A n \in Nat : n \in S
<1> DEFINE T == Nat \ S
<1>1. SUFFICES ASSUME T # {} PROVE FALSE
  OBVIOUS
<1>2. PICK n \in T : \A m \in T : n <= m
  BY <1>1, LeastOf
<1>3. n # 0 /\ n - 1 \in Nat /\ n - 1 \notin T
  BY <1>2
<1> QED BY <1>2, <1>3

\* The least number of a set is its Min, the greatest its Max.
LEMMA MinOf ==
  ASSUME NEW S \in SUBSET Nat, S # {}
  PROVE  Min(S) \in S /\ \A n \in S : Min(S) <= n
<1>1. \E n \in S : \A m \in S : n <= m
  BY LeastOf
<1> QED BY <1>1 DEF Min

\* The community modules' Max is the largest of a bounded set of numbers.
LEMMA MaxOf ==
  ASSUME NEW n \in Nat, NEW S \in SUBSET (1..n), S # {}
  PROVE  Max(S) \in S /\ \A m \in S : m <= Max(S)
<1> DEFINE T == {n - m : m \in S}
<1>1. \A m \in S : m \in 1..n
  OBVIOUS
<1>2. T \in SUBSET Nat /\ T # {}
  <2>1. \A m \in S : n - m \in Nat
    BY <1>1
  <2> QED BY <2>1
<1>3. PICK t \in T : \A u \in T : t <= u
  BY <1>2, LeastOf
<1>4. \A m \in S : t <= n - m
  BY <1>3
<1>5. \E m \in S : \A k \in S : m >= k
  BY <1>1, <1>3, <1>4
<1>6. Max(S) \in S /\ \A k \in S : Max(S) >= k
  BY <1>5, Zenon DEF Max
<1> QED BY <1>1, <1>6

-----------------------------------------------------------------------------
(* SplitString is a fold, and so a function on the sets of positions.      *)

\* One token more.
SplitStep(vec, t, sep) ==
  IF t = sep THEN Append(vec, <<>>)
  ELSE [vec EXCEPT ![Len(vec)] = Append(@, t)]

\* f[S] is what the tokens at S split into.
Splits(f, s, sep, D) ==
  f = [S \in SUBSET D |->
         IF S = {} THEN <<<<>>>>
         ELSE SplitStep(f[S \ {Max(S)}], s[Max(S)], sep)]

\* The fold in SplitString, unfolded once.
LEMMA SplitStringIs ==
  ASSUME NEW s, NEW sep, s # <<>>
  PROVE  SplitString(s, sep) = (CHOOSE f : Splits(f, s, sep, DOMAIN s))[DOMAIN s]
BY Zenon DEF SplitString, FoldLeft, MapThenFoldSet, Splits, SplitStep

\* The recursive function that the fold chooses exists.
LEMMA SplitsExists ==
  ASSUME NEW s, NEW sep, NEW n \in Nat
  PROVE  \E f : Splits(f, s, sep, 1..n)
<1> DEFINE N == {k \in Nat : \E f : Splits(f, s, sep, 1..k)}
<1>1. 0 \in N
  <2> DEFINE f == [S \in SUBSET (1..0) |-> <<<<>>>>]
  <2>1. \A S \in SUBSET (1..0) : S = {}
    OBVIOUS
  <2>2. Splits(f, s, sep, 1..0)
    BY <2>1 DEF Splits
  <2> QED BY <2>2
<1>2. ASSUME NEW k \in Nat, k \in N PROVE k + 1 \in N
  <2>1. PICK f : Splits(f, s, sep, 1..k)
    BY <1>2
  <2> DEFINE g == [S \in SUBSET (1..(k + 1)) |->
                     IF k + 1 \in S
                       THEN SplitStep(f[S \ {k + 1}], s[k + 1], sep)
                     ELSE f[S]]
  <2>2. ASSUME NEW S \in SUBSET (1..(k + 1)), k + 1 \in S
        PROVE  /\ S # {} /\ Max(S) = k + 1
               /\ g[S] = SplitStep(g[S \ {k + 1}], s[k + 1], sep)
    <3>0. Max(S) \in S /\ \A m \in S : m <= Max(S)
      BY <2>2, MaxOf, k + 1 \in Nat, Zenon
    <3>1. Max(S) = k + 1
      <4>1. Max(S) \in 1..(k + 1)
        BY <3>0
      <4>2. k + 1 <= Max(S)
        BY <2>2, <3>0
      <4> QED BY <4>1, <4>2
    <3>2. S \ {k + 1} \in SUBSET (1..k) /\ S \ {k + 1} \in SUBSET (1..(k + 1))
      OBVIOUS
    <3>3. g[S \ {k + 1}] = f[S \ {k + 1}]
      BY <3>2
    <3> QED BY <3>1, <3>3, <2>2
  <2>3. ASSUME NEW S \in SUBSET (1..(k + 1)), k + 1 \notin S, S # {}
        PROVE  g[S] = SplitStep(g[S \ {Max(S)}], s[Max(S)], sep)
    <3>0. \A m \in S : m \in 1..(k + 1) /\ m # k + 1
      BY <2>3
    <3>1. S \in SUBSET (1..k) /\ S \ {Max(S)} \in SUBSET (1..k)
      <4>1. \A m \in S : m \in 1..k
        BY <3>0
      <4> QED BY <4>1
    <3>2. f[S] = SplitStep(f[S \ {Max(S)}], s[Max(S)], sep)
      BY <3>1, <2>1, <2>3, Zenon DEF Splits
    <3>3. g[S] = f[S] /\ g[S \ {Max(S)}] = f[S \ {Max(S)}]
      BY <3>1, <2>3
    <3> QED BY <3>2, <3>3
  <2>4. g[{}] = <<<<>>>>
    <3>1. {} \in SUBSET (1..k)
      OBVIOUS
    <3>2. f[{}] = <<<<>>>>
      BY <3>1, <2>1, Zenon DEF Splits
    <3> QED BY <3>2
  <2>5. \A S \in SUBSET (1..(k + 1)) :
          g[S] = IF S = {} THEN <<<<>>>>
                 ELSE SplitStep(g[S \ {Max(S)}], s[Max(S)], sep)
    BY <2>2, <2>3, <2>4, Zenon
  <2>6. Splits(g, s, sep, 1..(k + 1))
    <3> DEFINE h == [S \in SUBSET (1..(k + 1)) |->
                       IF S = {} THEN <<<<>>>>
                       ELSE SplitStep(g[S \ {Max(S)}], s[Max(S)], sep)]
    <3>1. g = h
      <4> HIDE DEF SplitStep
      <4> QED BY <2>5, Zenon
    <3> QED BY <3>1, Zenon DEF Splits
  <2> QED BY <2>6
<1>3. \A k \in Nat : k \in N
  <2> HIDE DEF N
  <2> QED BY <1>1, <1>2, UpFromZero
<1> QED BY <1>3

\* h[k] is what the first k tokens of s split into.
Split(h, s, sep) ==
  /\ h[0] = <<<<>>>>
  /\ \A k \in 1..Len(s) : h[k] = SplitStep(h[k - 1], s[k], sep)

\* SplitString goes through a text from its beginning, token by token.
LEMMA SplitUnfolds ==
  ASSUME NEW T, NEW s \in Seq(T), NEW sep, s # <<>>
  PROVE  \E h : Split(h, s, sep) /\ SplitString(s, sep) = h[Len(s)]
<1> DEFINE f == CHOOSE g : Splits(g, s, sep, 1..Len(s))
           h == [k \in 0..Len(s) |-> f[1..k]]
<1>1. Len(s) \in Nat /\ DOMAIN s = 1..Len(s)
  OBVIOUS
<1>2. Splits(f, s, sep, 1..Len(s))
  BY <1>1, SplitsExists, Zenon
<1>3. SplitString(s, sep) = f[1..Len(s)]
  BY <1>1, SplitStringIs, Zenon
<1> HIDE DEF f
<1>4. h[0] = <<<<>>>>
  <2>1. 1..0 = {} /\ {} \in SUBSET (1..Len(s))
    OBVIOUS
  <2>2. f[{}] = <<<<>>>>
    BY <2>1, <1>2, Zenon DEF Splits
  <2> QED BY <2>1, <2>2, <1>1
<1>5. ASSUME NEW k \in 1..Len(s)
      PROVE  h[k] = SplitStep(h[k - 1], s[k], sep)
  <2>1. 1..k \in SUBSET (1..Len(s)) /\ 1..k # {}
    OBVIOUS
  <2>2. Max(1..k) = k
    <3>1. Max(1..k) \in 1..k /\ \A m \in 1..k : m <= Max(1..k)
      BY <2>1, MaxOf, k \in Nat, Zenon
    <3> QED BY <3>1
  <2>3. (1..k) \ {k} = 1..(k - 1)
    OBVIOUS
  <2>4. f[1..k] = SplitStep(f[(1..k) \ {k}], s[k], sep)
    BY <2>1, <2>2, <1>2, Zenon DEF Splits
  <2>5. h[k] = f[1..k] /\ h[k - 1] = f[1..(k - 1)]
    BY <1>1
  <2> QED BY <2>3, <2>4, <2>5
<1>6. h[Len(s)] = f[1..Len(s)]
  BY <1>1
<1> HIDE DEF h
<1> QED BY <1>3, <1>4, <1>5, <1>6 DEF Split

-----------------------------------------------------------------------------
(* What SplitString returns: the pieces between the separators.            *)

\* Some pieces of a text, at least one, without separators in them.
SomePieces(T, sep) == {vec \in Seq(Seq(T \ {sep})) : Len(vec) >= 1}

\* One step of SplitString keeps the pieces free of separators.
LEMMA StepTyped ==
  ASSUME NEW T, NEW sep, NEW t \in T, NEW vec \in SomePieces(T, sep)
  PROVE  SplitStep(vec, t, sep) \in SomePieces(T, sep)
<1> USE DEF SomePieces
<1> DEFINE W == Seq(T \ {sep})
<1>1. CASE t = sep
  <2>1. <<>> \in W
    OBVIOUS
  <2> HIDE DEF W
  <2>2. Append(vec, <<>>) \in Seq(W) /\ Len(Append(vec, <<>>)) = Len(vec) + 1
    BY <2>1, AppendProperties DEF W
  <2>3. SplitStep(vec, t, sep) = Append(vec, <<>>)
    BY <1>1 DEF SplitStep
  <2>4. Len(vec) \in Nat
    BY LenProperties DEF W
  <2> QED BY <2>2, <2>3, <2>4 DEF W
<1>2. CASE t # sep
  <2> DEFINE n == Len(vec)
             e == Append(vec[n], t)
  <2>1. n \in 1..Len(vec) /\ vec[n] \in W
    OBVIOUS
  <2>2. e \in W
    BY <1>2, <2>1
  <2>3. SplitStep(vec, t, sep) = [vec EXCEPT ![n] = e]
    BY <1>2 DEF SplitStep
  <2> HIDE DEF W, e, n
  <2>4. [vec EXCEPT ![n] = e] \in Seq(W) /\ Len([vec EXCEPT ![n] = e]) = Len(vec)
    BY <2>1, <2>2, ExceptSeq DEF W
  <2> QED BY <2>3, <2>4 DEF W
<1> QED BY <1>1, <1>2

\* So do all of them.
LEMMA SplitTyped ==
  ASSUME NEW T, NEW s \in Seq(T), NEW sep, NEW h, Split(h, s, sep)
  PROVE  \A k \in 0..Len(s) : h[k] \in SomePieces(T, sep)
<1> DEFINE N == {k \in Nat : k <= Len(s) => h[k] \in SomePieces(T, sep)}
<1>1. Len(s) \in Nat /\ \A k \in 1..Len(s) : s[k] \in T
  OBVIOUS
<1>2. 0 \in N
  <2>1. <<<<>>>> \in SomePieces(T, sep)
    BY DEF SomePieces
  <2>2. h[0] \in SomePieces(T, sep)
    BY <2>1, Zenon DEF Split
  <2> QED BY <2>2
<1>3. ASSUME NEW k \in Nat, k \in N PROVE k + 1 \in N
  <2>1. SUFFICES ASSUME k + 1 <= Len(s) 
                PROVE  h[k + 1] \in SomePieces(T, sep)
    OBVIOUS
  <2>2. k + 1 \in 1..Len(s) /\ h[k] \in SomePieces(T, sep) /\ (k + 1) - 1 = k
    BY <1>1, <1>3, <2>1
  <2>3. h[k + 1] = SplitStep(h[k], s[k + 1], sep)
    <3>1. h[k + 1] = SplitStep(h[(k + 1) - 1], s[k + 1], sep)
      BY <2>2, Zenon DEF Split
    <3> QED BY <3>1, <2>2
  <2>4. s[k + 1] \in T
    BY <1>1, <2>2
  <2> QED BY <2>2, <2>3, <2>4, StepTyped, Zenon
<1>4. \A k \in Nat : k \in N
  <2> HIDE DEF N
  <2> QED BY <1>2, <1>3, UpFromZero
<1> QED BY <1>1, <1>4

\* The pieces of a text, one empty piece for an empty text.
SplitAll(s, sep) == IF s = <<>> THEN <<<<>>>> ELSE SplitString(s, sep)

\* SplitAll goes through a text from its beginning, the empty one included.
LEMMA AllUnfolds ==
  ASSUME NEW T, NEW s \in Seq(T), NEW sep
  PROVE  \E h : Split(h, s, sep) /\ SplitAll(s, sep) = h[Len(s)]
<1>1. CASE s = <<>>
  <2> DEFINE h == [k \in {0} |-> <<<<>>>>]
  <2>1. Len(s) = 0 /\ 1..0 = {}
    BY <1>1
  <2>2. h[0] = <<<<>>>>
    OBVIOUS
  <2> HIDE DEF h
  <2>3. Split(h, s, sep)
    BY <2>1, <2>2 DEF Split
  <2> QED BY <1>1, <2>1, <2>2, <2>3 DEF SplitAll
<1>2. CASE s # <<>>
  BY <1>2, SplitUnfolds, Zenon DEF SplitAll
<1> QED BY <1>1, <1>2

\* SplitString returns pieces without separators.
LEMMA AllTyped ==
  ASSUME NEW T, NEW s \in Seq(T), NEW sep
  PROVE  /\ SplitAll(s, sep) \in SomePieces(T, sep)
         /\ SplitString(s, sep) \in Seq(Seq(T \ {sep}))
<1>1. SplitAll(s, sep) \in SomePieces(T, sep)
  <2>1. PICK h : Split(h, s, sep) /\ SplitAll(s, sep) = h[Len(s)]
    BY AllUnfolds
  <2>2. Len(s) \in 0..Len(s)
    OBVIOUS
  <2>3. \A k \in 0..Len(s) : h[k] \in SomePieces(T, sep)
    BY <2>1, SplitTyped
  <2>4. h[Len(s)] \in SomePieces(T, sep)
    BY <2>2, <2>3, Zenon
  <2> QED BY <2>1, <2>4
<1>2. CASE s = <<>>
  <2>1. SplitString(s, sep) = <<>>
    BY <1>2, Zenon DEF SplitString
  <2> QED BY <2>1, <1>1
<1>3. CASE s # <<>>
  BY <1>1, <1>3 DEF SplitAll, SomePieces
<1> QED BY <1>1, <1>2, <1>3, Zenon

\* A text without separators is one piece.
LEMMA SplitPlain ==
  ASSUME NEW T, NEW s \in Seq(T), NEW sep, NEW h, Split(h, s, sep),
         NEW n \in 0..Len(s), \A i \in 1..n : s[i] # sep
  PROVE  h[n] = <<SubSeq(s, 1, n)>>
<1> DEFINE N == {k \in Nat : k <= n => h[k] = <<SubSeq(s, 1, k)>>}
<1>1. Len(s) \in Nat /\ \A k \in 1..Len(s) : s[k] \in T
  OBVIOUS
<1>2. 0 \in N
  <2>1. SubSeq(s, 1, 0) = <<>>
    OBVIOUS
  <2>2. h[0] = <<<<>>>>
    BY DEF Split
  <2> QED BY <2>1, <2>2
<1>3. ASSUME NEW k \in Nat, k \in N PROVE k + 1 \in N
  <2>1. SUFFICES ASSUME k + 1 <= n PROVE h[k + 1] = <<SubSeq(s, 1, k + 1)>>
    OBVIOUS
  <2>2. /\ k + 1 \in 1..Len(s) /\ k + 1 \in 1..n /\ (k + 1) - 1 = k
        /\ h[k] = <<SubSeq(s, 1, k)>>
    BY <1>1, <1>3, <2>1
  <2>3. h[k + 1] = SplitStep(<<SubSeq(s, 1, k)>>, s[k + 1], sep)
    <3>1. h[k + 1] = SplitStep(h[(k + 1) - 1], s[k + 1], sep)
      BY <2>2, Zenon DEF Split
    <3> QED BY <3>1, <2>2, Zenon
  <2>4. s[k + 1] # sep
    BY <2>2
  <2> DEFINE u == SubSeq(s, 1, k)
  <2>5. SplitStep(<<u>>, s[k + 1], sep) = <<Append(u, s[k + 1])>>
    <3>1. SplitStep(<<u>>, s[k + 1], sep)
            = [<<u>> EXCEPT ![Len(<<u>>)] = Append(@, s[k + 1])]
      BY <2>4 DEF SplitStep
    <3> HIDE DEF u
    <3>2. Len(<<u>>) = 1
      OBVIOUS
    <3>3. [<<u>> EXCEPT ![1] = Append(@, s[k + 1])] = <<Append(u, s[k + 1])>>
      OBVIOUS
    <3> QED BY <3>1, <3>2, <3>3
  <2>6. Append(u, s[k + 1]) = SubSeq(s, 1, k + 1)
    <3>1. SubSeq(s, 1, k + 1) = SubSeq(s, 1, k + 1 - 1) \o <<s[k + 1]>>
      BY <1>1, <2>2, SubSeqRecursiveSecond
    <3> QED BY <3>1, <2>2, <1>1
  <2> QED BY <2>3, <2>5, <2>6
<1>4. \A k \in Nat : k \in N
  <2> HIDE DEF N
  <2> QED BY <1>2, <1>3, UpFromZero
<1> QED BY <1>1, <1>4

\* A text without separators is its only piece.
LEMMA AllPlain ==
  ASSUME NEW T, NEW sep, NEW u \in Seq(T \ {sep})
  PROVE  SplitAll(u, sep) = <<u>>
<1>1. PICK h : Split(h, u, sep) /\ SplitAll(u, sep) = h[Len(u)]
  BY AllUnfolds
<1>2. Len(u) \in 0..Len(u) /\ \A i \in 1..Len(u) : u[i] # sep
  OBVIOUS
<1>3. h[Len(u)] = <<SubSeq(u, 1, Len(u))>>
  BY <1>1, <1>2, SplitPlain
<1>4. SubSeq(u, 1, Len(u)) = u
  BY SubSeqFull
<1> QED BY <1>1, <1>3, <1>4

\* What stands before a text's pieces stays before them.
LEMMA StepShift ==
  ASSUME NEW T, NEW sep, NEW t \in T, NEW u \in Seq(T \ {sep}),
         NEW vec \in SomePieces(T, sep)
  PROVE  SplitStep(<<u>> \o vec, t, sep) = <<u>> \o SplitStep(vec, t, sep)
<1> DEFINE W == Seq(T \ {sep})
           n == Len(vec)
           w == <<u>> \o vec
<1>1. vec \in Seq(W) /\ n \in Nat /\ n >= 1 /\ <<u>> \in Seq(W) /\ Len(<<u>>) = 1
  BY DEF SomePieces
<1>2. /\ w \in Seq(W) /\ Len(w) = 1 + n
      /\ \A i \in 1..(1 + n) : w[i] = IF i <= 1 THEN <<u>>[i] ELSE vec[i - 1]
  <2> HIDE DEF W
  <2>1. /\ w \in Seq(W) /\ Len(w) = Len(<<u>>) + n
        /\ \A i \in 1..(Len(<<u>>) + n) :
             w[i] = IF i <= Len(<<u>>) THEN <<u>>[i] ELSE vec[i - Len(<<u>>)]
    BY <1>1, ConcatProperties
  <2> QED BY <1>1, <2>1
<1>3. CASE t = sep
  <2>1. SplitStep(w, t, sep) = Append(w, <<>>)
    BY <1>3, Zenon DEF SplitStep
  <2>2. SplitStep(vec, t, sep) = Append(vec, <<>>)
    BY <1>3, Zenon DEF SplitStep
  <2>3. <<>> \in W
    OBVIOUS
  <2> HIDE DEF W, w
  <2>4. Append(w, <<>>) = w \o <<<<>>>> /\ Append(vec, <<>>) = vec \o <<<<>>>>
    BY <1>1, <1>2, <2>3, AppendIsConcat
  <2>5. <<<<>>>> \in Seq(W)
    BY <2>3
  <2>6. (<<u>> \o vec) \o <<<<>>>> = <<u>> \o (vec \o <<<<>>>>)
    BY <1>1, <2>5, ConcatAssociative
  <2> QED BY <2>1, <2>2, <2>4, <2>6 DEF w
<1>4. CASE t # sep
  <2> DEFINE e == Append(vec[n], t)
  <2>1. e \in W
    BY <1>1, <1>4
  <2>2. w[1 + n] = vec[n]
    BY <1>1, <1>2
  <2>3. SplitStep(w, t, sep) = [w EXCEPT ![1 + n] = e]
    <3>1. SplitStep(w, t, sep) = [w EXCEPT ![Len(w)] = Append(w[Len(w)], t)]
      BY <1>4 DEF SplitStep
    <3>2. Len(w) = 1 + n
      BY <1>2
    <3> QED BY <3>1, <3>2, <2>2
  <2>4. SplitStep(vec, t, sep) = [vec EXCEPT ![n] = e]
    BY <1>4 DEF SplitStep
  <2> HIDE DEF e, W, w
  <2>5. /\ [w EXCEPT ![1 + n] = e] \in Seq(W)
        /\ Len([w EXCEPT ![1 + n] = e]) = 1 + n
        /\ \A j \in 1..(1 + n) : [w EXCEPT ![1 + n] = e][j]
                                   = IF j = 1 + n THEN e ELSE w[j]
    BY <1>1, <1>2, <2>1, ExceptSeq
  <2> DEFINE x == [vec EXCEPT ![n] = e]
  <2>6. x \in Seq(W) /\ Len(x) = n /\ \A j \in 1..n : x[j] = IF j = n THEN e ELSE vec[j]
    BY <1>1, <2>1, ExceptSeq
  <2> HIDE DEF x
  <2>7. /\ <<u>> \o x \in Seq(W) /\ Len(<<u>> \o x) = Len(<<u>>) + n
        /\ \A i \in 1..(Len(<<u>>) + n) :
             (<<u>> \o x)[i] = IF i <= Len(<<u>>) THEN <<u>>[i] ELSE x[i - Len(<<u>>)]
    BY <1>1, <2>6, ConcatProperties
  <2>8. ASSUME NEW j \in 1..(1 + n)
        PROVE  [w EXCEPT ![1 + n] = e][j] = (<<u>> \o x)[j]
    <3>1. [w EXCEPT ![1 + n] = e][j] = IF j = 1 + n THEN e ELSE w[j]
      BY <2>5
    <3>2. w[j] = IF j <= 1 THEN <<u>>[j] ELSE vec[j - 1]
      BY <1>2
    <3>3. (<<u>> \o x)[j] = IF j <= 1 THEN <<u>>[j] ELSE x[j - 1]
      BY <1>1, <2>7
    <3>4. j # 1 => j - 1 \in 1..n /\ x[j - 1] = IF j - 1 = n THEN e ELSE vec[j - 1]
      BY <1>1, <2>6
    <3>5. n \in Nat /\ n >= 1 /\ j \in Nat /\ j >= 1
      BY <1>1
    <3>6. CASE j = 1
      <4>1. j # 1 + n /\ j <= 1
        BY <3>5, <3>6
      <4> QED BY <3>1, <3>2, <3>3, <4>1
    <3>7. CASE j # 1
      <4>1. ~(j <= 1) /\ (j = 1 + n <=> j - 1 = n)
        BY <3>5, <3>7
      <4> QED BY <3>1, <3>2, <3>3, <3>4, <3>7, <4>1
    <3> QED BY <3>6, <3>7
  <2>9. [w EXCEPT ![1 + n] = e] = <<u>> \o x
    <3> DEFINE y == [w EXCEPT ![1 + n] = e]
               z == <<u>> \o x
    <3>1. y \in Seq(W) /\ z \in Seq(W) /\ Len(y) = Len(z)
          /\ \A j \in 1..Len(y) : y[j] = z[j]
      BY <1>1, <2>5, <2>7, <2>8
    <3> HIDE DEF y, z
    <3>2. y = z
      BY <3>1, SeqEqual
    <3> QED BY <3>2 DEF y, z
  <2> QED BY <2>3, <2>4, <2>9 DEF w, x
<1> QED BY <1>3, <1>4

\* The pieces of two texts with a separator between them.
LEMMA AllJoined ==
  ASSUME NEW T, NEW sep \in T, NEW u \in Seq(T \ {sep}), NEW s \in Seq(T)
  PROVE  SplitAll((u \o <<sep>>) \o s, sep) = <<u>> \o SplitAll(s, sep)
<1> DEFINE w == (u \o <<sep>>) \o s
           n == Len(u)
<1>1. /\ u \in Seq(T) /\ <<sep>> \in Seq(T) /\ n \in Nat /\ Len(s) \in Nat
      /\ \A i \in 1..n : u[i] # sep
  OBVIOUS
<1>2. /\ w \in Seq(T) /\ Len(w) = n + 1 + Len(s)
      /\ \A i \in 1..n : w[i] = u[i]
      /\ w[n + 1] = sep
      /\ \A i \in 1..Len(s) : w[n + 1 + i] = s[i]
  BY <1>1
<1> HIDE DEF w
<1>3. PICK h : Split(h, w, sep) /\ SplitAll(w, sep) = h[Len(w)]
  BY <1>2, AllUnfolds
<1>4. PICK g : Split(g, s, sep) /\ SplitAll(s, sep) = g[Len(s)]
  BY AllUnfolds
<1>5. \A k \in 0..Len(s) : g[k] \in SomePieces(T, sep)
  BY <1>4, SplitTyped
<1>6. h[n] = <<u>>
  <2>1. n \in 0..Len(w) /\ \A i \in 1..n : w[i] # sep
    <3>1. n \in 0..Len(w)
      BY <1>1, <1>2
    <3>2. \A i \in 1..n : w[i] # sep
      BY <1>1, <1>2, Zenon
    <3> QED BY <3>1, <3>2
  <2>2. h[n] = <<SubSeq(w, 1, n)>>
    <3>1. w \in Seq(T) /\ Split(h, w, sep)
      BY <1>2, <1>3
    <3>2. n \in 0..Len(w)
      BY <2>1
    <3>3. \A i \in 1..n : w[i] # sep
      BY <2>1
    <3> HIDE DEF n
    <3> QED BY <3>1, <3>2, <3>3, SplitPlain
  <2>3. SubSeq(w, 1, n) = u
    <3>1. /\ SubSeq(w, 1, n) \in Seq(T) /\ Len(SubSeq(w, 1, n)) = n
          /\ \A i \in 1..n : SubSeq(w, 1, n)[i] = w[i]
      BY <1>1, <1>2
    <3> QED BY <1>1, <1>2, <3>1, SeqEqual
  <2> QED BY <2>2, <2>3
<1>7. h[n + 1] = <<u>> \o g[0]
  <2>1. n + 1 \in 1..Len(w) /\ (n + 1) - 1 = n
    BY <1>1, <1>2
  <2>2. h[n + 1] = SplitStep(h[(n + 1) - 1], w[n + 1], sep)
    BY <1>3, <2>1, Zenon DEF Split
  <2>3. h[n + 1] = SplitStep(<<u>>, sep, sep)
    BY <1>2, <1>6, <2>1, <2>2
  <2>4. SplitStep(<<u>>, sep, sep) = Append(<<u>>, <<>>)
    BY Zenon DEF SplitStep
  <2>5. Append(<<u>>, <<>>) = <<u>> \o <<<<>>>>
    <3> DEFINE W == Seq(T \ {sep})
    <3>1. <<u>> \in Seq(W) /\ <<>> \in W
      OBVIOUS
    <3> HIDE DEF W
    <3> QED BY <3>1, AppendIsConcat
  <2>6. g[0] = <<<<>>>>
    BY <1>4 DEF Split
  <2> QED BY <2>3, <2>4, <2>5, <2>6
<1>71. \A x \in T : \A vec \in SomePieces(T, sep) :
         SplitStep(<<u>> \o vec, x, sep) = <<u>> \o SplitStep(vec, x, sep)
  <2>1. ASSUME NEW x \in T, NEW vec \in SomePieces(T, sep)
        PROVE  SplitStep(<<u>> \o vec, x, sep) = <<u>> \o SplitStep(vec, x, sep)
    BY StepShift, SMTT(60)
  <2> QED BY <2>1, Zenon
<1> DEFINE N == {k \in Nat : k <= Len(s) => h[n + 1 + k] = <<u>> \o g[k]}
<1>8. 0 \in N
  BY <1>1, <1>7
<1>9. ASSUME NEW k \in Nat, k \in N PROVE k + 1 \in N
  <2>1. SUFFICES ASSUME k + 1 <= Len(s)
                 PROVE  h[n + 1 + (k + 1)] = <<u>> \o g[k + 1]
    OBVIOUS
  <2>2. /\ k + 1 \in 1..Len(s) /\ k \in 0..Len(s) /\ (k + 1) - 1 = k
        /\ n + 1 + (k + 1) \in 1..Len(w)
        /\ (n + 1 + (k + 1)) - 1 = n + 1 + k
        /\ h[n + 1 + k] = <<u>> \o g[k]
    BY <1>1, <1>2, <1>9, <2>1
  <2>3. g[k + 1] = SplitStep(g[k], s[k + 1], sep)
    <3>1. g[k + 1] = SplitStep(g[(k + 1) - 1], s[k + 1], sep)
      BY <1>4, <2>2, Zenon DEF Split
    <3> QED BY <2>2, <3>1, Zenon
  <2>4. h[n + 1 + (k + 1)] = SplitStep(<<u>> \o g[k], s[k + 1], sep)
    <3>1. h[n + 1 + (k + 1)]
            = SplitStep(h[(n + 1 + (k + 1)) - 1], w[n + 1 + (k + 1)], sep)
      BY <1>3, <2>2, Zenon DEF Split
    <3>2. w[n + 1 + (k + 1)] = s[k + 1]
      BY <1>2, <2>2, Zenon
    <3> QED BY <2>2, <3>1, <3>2, Zenon
  <2>5. s[k + 1] \in T /\ g[k] \in SomePieces(T, sep)
    BY <1>5, <2>2
  <2>6. SplitStep(<<u>> \o g[k], s[k + 1], sep)
          = <<u>> \o SplitStep(g[k], s[k + 1], sep)
    BY <1>71, <2>5, Zenon
  <2> QED BY <2>3, <2>4, <2>6, Zenon
<1>10. \A k \in Nat : k \in N
  <2> HIDE DEF N
  <2> QED BY <1>8, <1>9, UpFromZero
<1>11. h[n + 1 + Len(s)] = <<u>> \o g[Len(s)]
  BY <1>1, <1>10
<1> QED BY <1>2, <1>3, <1>4, <1>11 DEF w

-----------------------------------------------------------------------------
(* FlattenSeq, and the fields before the data of a text.                   *)

\* f[n] is the first n sequences of q, joined.
Joins(f, q, n) ==
  f = [i \in 1..n |-> IF i = 1 THEN q[i] ELSE f[i - 1] \o q[i]]

\* The recursive function that FlattenSeq chooses exists.
LEMMA JoinsExists ==
  ASSUME NEW q, NEW n \in Nat
  PROVE  \E f : Joins(f, q, n)
<1> DEFINE N == {k \in Nat : \E f : Joins(f, q, k)}
<1>1. 0 \in N
  <2> DEFINE f == [i \in 1..0 |-> <<>>]
  <2>1. Joins(f, q, 0)
    BY DEF Joins
  <2> QED BY <2>1
<1>2. ASSUME NEW k \in Nat, k \in N PROVE k + 1 \in N
  <2>1. PICK f : Joins(f, q, k)
    BY <1>2
  <2> DEFINE e == IF k = 0 THEN q[1] ELSE f[k] \o q[k + 1]
             g == [i \in 1..(k + 1) |-> IF i = k + 1 THEN e ELSE f[i]]
  <2> HIDE DEF e
  <2>2. ASSUME NEW i \in 1..(k + 1)
        PROVE  g[i] = IF i = 1 THEN q[i] ELSE g[i - 1] \o q[i]
    <3>1. CASE i = k + 1
      <4>1. g[i] = e /\ (k # 0 => g[i - 1] = f[k]) /\ (k = 0 <=> i = 1)
        BY <3>1
      <4> QED BY <3>1, <4>1 DEF e
    <3>2. CASE i # k + 1
      <4>1. i \in 1..k /\ (i # 1 => i - 1 \in 1..k /\ i - 1 # k + 1)
        BY <3>2
      <4>2. f[i] = IF i = 1 THEN q[i] ELSE f[i - 1] \o q[i]
        BY <2>1, <4>1, Zenon DEF Joins
      <4>3. g[i] = f[i] /\ (i # 1 => g[i - 1] = f[i - 1])
        BY <3>2, <4>1
      <4> QED BY <4>2, <4>3
    <3> QED BY <3>1, <3>2
  <2>3. Joins(g, q, k + 1)
    <3> DEFINE G == [i \in 1..(k + 1) |-> IF i = 1 THEN q[i] ELSE g[i - 1] \o q[i]]
    <3>1. g = G
      BY <2>2, Zenon
    <3> QED BY <3>1, Zenon DEF Joins
  <2> QED BY <2>3
<1>3. \A k \in Nat : k \in N
  <2> HIDE DEF N
  <2> QED BY <1>1, <1>2, UpFromZero
<1> QED BY <1>3

\* Its values, one by one.
LEMMA JoinsAt ==
  ASSUME NEW q, NEW n, NEW f, Joins(f, q, n)
  PROVE  \A i \in 1..n : f[i] = IF i = 1 THEN q[i] ELSE f[i - 1] \o q[i]
<1>1. ASSUME NEW g, f = g,
             g = [i \in 1..n |-> IF i = 1 THEN q[i] ELSE f[i - 1] \o q[i]]
      PROVE  \A i \in 1..n : f[i] = IF i = 1 THEN q[i] ELSE f[i - 1] \o q[i]
  <2>1. \A i \in 1..n : g[i] = IF i = 1 THEN q[i] ELSE f[i - 1] \o q[i]
    BY <1>1, Zenon
  <2> QED BY <1>1, <2>1
<1> QED BY <1>1, Zenon DEF Joins

\* FlattenSeq joins sequences from the first to the last.
LEMMA FlattenUnfolds ==
  ASSUME NEW q, NEW n \in Nat, Len(q) = n, n # 0
  PROVE  \E f : /\ FlattenSeq(q) = f[n]
                /\ f[1] = q[1]
                /\ \A i \in 1..n : i # 1 => f[i] = f[i - 1] \o q[i]
<1> DEFINE f == CHOOSE g : Joins(g, q, n)
<1>1. FlattenSeq(q) = (CHOOSE g : Joins(g, q, Len(q)))[Len(q)]
  BY Zenon DEF FlattenSeq, Joins
<1>2. FlattenSeq(q) = f[n]
  BY <1>1
<1>3. Joins(f, q, n)
  BY JoinsExists, Zenon
<1> HIDE DEF f
<1>4. \A i \in 1..n : f[i] = IF i = 1 THEN q[i] ELSE f[i - 1] \o q[i]
  BY <1>3, JoinsAt
<1>5. f[1] = q[1]
  <2>1. 1 \in 1..n
    OBVIOUS
  <2> QED BY <1>4, <2>1, Zenon
<1>6. \A i \in 1..n : i # 1 => f[i] = f[i - 1] \o q[i]
  BY <1>4, Zenon
<1> QED BY <1>2, <1>5, <1>6, Zenon

\* What FlattenSeq joins out of sequences over T is one.
LEMMA FlattenTyped ==
  ASSUME NEW T, NEW q \in Seq(Seq(T))
  PROVE  FlattenSeq(q) \in Seq(T)
<1>1. Len(q) \in Nat /\ \A i \in 1..Len(q) : q[i] \in Seq(T)
  OBVIOUS
<1>2. CASE Len(q) = 0
  <2>1. FlattenSeq(q) = q
    BY <1>2, Zenon DEF FlattenSeq
  <2>2. q = <<>>
    BY <1>2
  <2> QED BY <2>1, <2>2
<1>3. CASE Len(q) # 0
  <2>1. PICK f : /\ FlattenSeq(q) = f[Len(q)]
                 /\ f[1] = q[1]
                 /\ \A i \in 1..Len(q) : i # 1 => f[i] = f[i - 1] \o q[i]
    BY <1>1, <1>3, FlattenUnfolds
  <2> DEFINE N == {k \in Nat : k \in 1..Len(q) => f[k] \in Seq(T)}
  <2>2. 0 \in N
    OBVIOUS
  <2>3. ASSUME NEW k \in Nat, k \in N PROVE k + 1 \in N
    <3>1. SUFFICES ASSUME k + 1 \in 1..Len(q) PROVE f[k + 1] \in Seq(T)
      OBVIOUS
    <3>2. CASE k = 0
      BY <1>1, <2>1, <3>1, <3>2
    <3>3. CASE k # 0
      <4>1. f[k + 1] = f[(k + 1) - 1] \o q[k + 1]
        <5>1. k + 1 # 1
          BY <3>3
        <5> QED BY <2>1, <3>1, <5>1, Zenon
      <4>2. (k + 1) - 1 = k /\ f[k] \in Seq(T) /\ q[k + 1] \in Seq(T)
        BY <1>1, <2>3, <3>1, <3>3
      <4> QED BY <4>1, <4>2
    <3> QED BY <3>2, <3>3
  <2>4. \A k \in Nat : k \in N
    <3> HIDE DEF N
    <3> QED BY <2>2, <2>3, UpFromZero
  <2> QED BY <1>1, <1>3, <2>1, <2>4
<1> QED BY <1>2, <1>3

\* The names of the fields.
LEMMA HeaderNames ==
  /\ Header \in Seq(Tokens) /\ Len(Header) = 9 /\ DOMAIN Header = 1..9
  /\ \A i \in 1..9 : /\ Header[i] \in Range(Header)
                      /\ Header[i] \in Tokens \ {"=", "&", " "}
  /\ \A i, j \in 1..9 : Header[i] = Header[j] => i = j
  /\ Range(Header) = {"ret", "type", "index", "serialno", "cmd",
                      "fd", "family", "cliIp", "cliPort"}
<1>1. Len(Header) = 9 /\ DOMAIN Header = 1..9
  BY DEF Header
<1>2. 1..9 = {1, 2, 3, 4, 5, 6, 7, 8, 9}
  OBVIOUS
<1>3. Range(Header) = {"ret", "type", "index", "serialno", "cmd",
                       "fd", "family", "cliIp", "cliPort"}
  <2>1. Range(Header) = {Header[i] : i \in {1, 2, 3, 4, 5, 6, 7, 8, 9}}
    BY <1>1, <1>2 DEF Range
  <2> QED BY <2>1 DEF Header
<1>4. \A i, j \in 1..9 : Header[i] = Header[j] => i = j
  BY DEF Header
<1>5. \A i \in 1..9 : Header[i] \in Range(Header)
  BY <1>1 DEF Range
<1>6. \A i \in 1..9 : Header[i] \in Tokens \ {"=", "&", " "}
  <2>1. Range(Header) \subseteq Tokens
    BY Zenon DEF Tokens
  <2>2. Range(Header) \cap {"=", "&", " "} = {}
    BY <1>3
  <2> QED BY <1>5, <2>1, <2>2
<1>7. Header \in Seq(Tokens)
  <2>1. \A i \in 1..9 : Header[i] \in Tokens
    BY <1>6
  <2>2. Header = [i \in 1..9 |-> Header[i]]
    BY <1>1 DEF Header
  <2>3. [i \in 1..9 |-> Header[i]] \in [1..9 -> Tokens]
    BY <2>1
  <2>4. [1..9 -> Tokens] \subseteq Seq(Tokens)
    BY SeqDef
  <2> QED BY <2>2, <2>3, <2>4
<1> QED BY <1>1, <1>3, <1>4, <1>5, <1>6, <1>7, Zenon

-----------------------------------------------------------------------------
(* The text of a CCmd: nine fields, each with its separators, and data.    *)

\* A CCmd that ToString may write: its fields are no separators.
Writable(c) ==
  /\ \A f \in Range(Header) : c.head[f] \in Tokens \ {"=", "&", " "}
  /\ c.data \in Seq(Tokens)

Written9(c) == [i \in DOMAIN Header |-> <<Header[i], "=", c.head[Header[i]], "&">>]
HeadText(c) == FlattenSeq(Written9(c))

\* The first n fields, as pieces.
Fields(c, n) == [i \in 1..n |-> <<Header[i], "=", c.head[Header[i]]>>]

\* A function on 1..n is a sequence of length n.
LEMMA FunctionIsSeq ==
  ASSUME NEW T, NEW n \in Nat, NEW f \in [1..n -> T]
  PROVE  f \in Seq(T) /\ Len(f) = n
OBVIOUS

\* Tuples of tokens.
LEMMA OneToken ==
  ASSUME NEW T, NEW a \in T
  PROVE  <<a>> \in Seq(T) /\ Len(<<a>>) = 1 /\ <<a>>[1] = a
OBVIOUS

\* Tuples written with commas are tokens put together.
LEMMA TwoTokens ==
  ASSUME NEW a, NEW b
  PROVE  <<a>> \o <<b>> = <<a, b>>
<1> DEFINE T == {a, b}
           s == <<a, b>>
           t == <<a>>
           u == <<b>>
<1>1. s \in Seq(T) /\ Len(s) = 2 /\ s[1] = a /\ s[2] = b
  OBVIOUS
<1>2. t \in Seq(T) /\ Len(t) = 1 /\ t[1] = a
  OBVIOUS
<1>3. u \in Seq(T) /\ Len(u) = 1 /\ u[1] = b
  OBVIOUS
<1> HIDE DEF s, t, u, T
<1>4. /\ t \o u \in Seq(T) /\ Len(t \o u) = 2
      /\ \A i \in 1..2 : (t \o u)[i] = IF i <= 1 THEN t[i] ELSE u[i - 1]
  <2>1. /\ t \o u \in Seq(T) /\ Len(t \o u) = Len(t) + Len(u)
        /\ \A i \in 1..(Len(t) + Len(u)) :
             (t \o u)[i] = IF i <= Len(t) THEN t[i] ELSE u[i - Len(t)]
    BY <1>2, <1>3, ConcatProperties
  <2> QED BY <1>2, <1>3, <2>1
<1>5. \A i \in 1..2 : s[i] = (t \o u)[i]
  BY <1>1, <1>2, <1>3, <1>4
<1>6. s = t \o u
  BY <1>1, <1>4, <1>5, SeqEqual
<1> QED BY <1>6 DEF s, t, u

\* The same for three tokens.
LEMMA ThreeTokens ==
  ASSUME NEW a, NEW b, NEW c
  PROVE  <<a, b>> \o <<c>> = <<a, b, c>>
<1> DEFINE T == {a, b, c}
           s == <<a, b, c>>
           t == <<a, b>>
           u == <<c>>
<1>1. s \in Seq(T) /\ Len(s) = 3 /\ s[1] = a /\ s[2] = b /\ s[3] = c
  OBVIOUS
<1>2. t \in Seq(T) /\ Len(t) = 2 /\ t[1] = a /\ t[2] = b
  OBVIOUS
<1>3. u \in Seq(T) /\ Len(u) = 1 /\ u[1] = c
  OBVIOUS
<1> HIDE DEF s, t, u, T
<1>4. /\ t \o u \in Seq(T) /\ Len(t \o u) = 3
      /\ \A i \in 1..3 : (t \o u)[i] = IF i <= 2 THEN t[i] ELSE u[i - 2]
  <2>1. /\ t \o u \in Seq(T) /\ Len(t \o u) = Len(t) + Len(u)
        /\ \A i \in 1..(Len(t) + Len(u)) :
             (t \o u)[i] = IF i <= Len(t) THEN t[i] ELSE u[i - Len(t)]
    BY <1>2, <1>3, ConcatProperties
  <2> QED BY <1>2, <1>3, <2>1
<1>5. \A i \in 1..3 : s[i] = (t \o u)[i]
  BY <1>1, <1>2, <1>3, <1>4
<1>6. s = t \o u
  BY <1>1, <1>4, <1>5, SeqEqual
<1> QED BY <1>6 DEF s, t, u

\* The same for four tokens.
LEMMA FourTokens ==
  ASSUME NEW a, NEW b, NEW c, NEW d
  PROVE  <<a, b, c, d>> = <<a, b, c>> \o <<d>>
<1> DEFINE T == {a, b, c, d}
           s == <<a, b, c, d>>
           t == <<a, b, c>>
           u == <<d>>
<1>1. /\ s \in Seq(T) /\ Len(s) = 4
      /\ s[1] = a /\ s[2] = b /\ s[3] = c /\ s[4] = d
  OBVIOUS
<1>2. t \in Seq(T) /\ Len(t) = 3 /\ t[1] = a /\ t[2] = b /\ t[3] = c
  OBVIOUS
<1>3. u \in Seq(T) /\ Len(u) = 1 /\ u[1] = d
  OBVIOUS
<1> HIDE DEF s, t, u, T
<1>4. /\ t \o u \in Seq(T) /\ Len(t \o u) = 4
      /\ \A i \in 1..4 : (t \o u)[i] = IF i <= 3 THEN t[i] ELSE u[i - 3]
  <2>1. /\ t \o u \in Seq(T) /\ Len(t \o u) = Len(t) + Len(u)
        /\ \A i \in 1..(Len(t) + Len(u)) :
             (t \o u)[i] = IF i <= Len(t) THEN t[i] ELSE u[i - Len(t)]
    BY <1>2, <1>3, ConcatProperties
  <2> QED BY <1>2, <1>3, <2>1
<1>5. \A i \in 1..4 : s[i] = (t \o u)[i]
  BY <1>1, <1>2, <1>3, <1>4
<1>6. s = t \o u
  BY <1>1, <1>4, <1>5, SeqEqual
<1> QED BY <1>6 DEF s, t, u

\* The type of three tokens.
LEMMA TripleTyped ==
  ASSUME NEW T, NEW a \in T, NEW b \in T, NEW c \in T
  PROVE  <<a, b, c>> \in Seq(T) /\ Len(<<a, b, c>>) = 3
OBVIOUS

\* What ToString writes of a field.
LEMMA FieldTyped ==
  ASSUME NEW c, Writable(c), NEW i \in 1..9
  PROVE  /\ <<Header[i], "=", c.head[Header[i]]>> \in Seq(Tokens \ {"&"})
         /\ Written9(c)[i] = <<Header[i], "=", c.head[Header[i]]>> \o <<"&">>
         /\ "&" \in Tokens /\ "=" \in Tokens
<1>1. Header[i] \in Tokens \ {"=", "&", " "}
  BY HeaderNames
<1>2. c.head[Header[i]] \in Tokens \ {"=", "&", " "}
  BY HeaderNames DEF Writable
<1>3. "=" \in Tokens /\ "&" \in Tokens
  BY DEF Tokens
<1>4. Written9(c)[i] = <<Header[i], "=", c.head[Header[i]], "&">>
  <2>1. DOMAIN Header = 1..9
    BY HeaderNames
  <2> QED BY <2>1 DEF Written9
<1>5. <<Header[i], "=", c.head[Header[i]]>> \in Seq(Tokens \ {"&"})
  <2>1. Header[i] \in Tokens \ {"&"} /\ c.head[Header[i]] \in Tokens \ {"&"}
    BY <1>1, <1>2, Zenon
  <2>2. "=" \in Tokens \ {"&"}
    BY <1>3
  <2> QED BY <2>1, <2>2, TripleTyped
<1> QED BY <1>3, <1>4, <1>5, FourTokens

\* One more field before what follows the fields.
LEMMA FieldsGrow ==
  ASSUME NEW c, Writable(c), NEW n \in Nat, n + 1 \in 1..9,
         NEW x \in Seq(Seq(Tokens))
  PROVE  /\ Fields(c, n) \in Seq(Seq(Tokens))
         /\ Fields(c, n + 1) \o x
              = Fields(c, n) \o (<<<<Header[n + 1], "=", c.head[Header[n + 1]]>>>> \o x)
<1> DEFINE W == Seq(Tokens)
           P(i) == <<Header[i], "=", c.head[Header[i]]>>
<1>1. \A i \in 1..9 : P(i) \in W
  <2>1. \A i \in 1..9 : P(i) \in Seq(Tokens \ {"&"})
    BY FieldTyped
  <2> QED BY <2>1
<1>2. Fields(c, n) = [i \in 1..n |-> P(i)] /\ Fields(c, n + 1) = [i \in 1..(n + 1) |-> P(i)]
  BY Zenon DEF Fields
<1> HIDE DEF W, P
<1>3. Fields(c, n) \in Seq(W) /\ Len(Fields(c, n)) = n
  <2>1. \A i \in 1..n : P(i) \in W
    BY <1>1
  <2>2. Fields(c, n) \in [1..n -> W]
    BY <1>2, <2>1
  <2> QED BY <2>2, FunctionIsSeq
<1>4. Fields(c, n + 1) \in Seq(W) /\ Len(Fields(c, n + 1)) = n + 1
  <2>1. \A i \in 1..(n + 1) : P(i) \in W
    BY <1>1
  <2>2. Fields(c, n + 1) \in [1..(n + 1) -> W] /\ n + 1 \in Nat
    BY <1>2, <2>1
  <2> QED BY <2>2, FunctionIsSeq
<1>5. P(n + 1) \in W
  BY <1>1
<1>6. Fields(c, n + 1) = Fields(c, n) \o <<P(n + 1)>>
  <2> DEFINE y == Fields(c, n) \o <<P(n + 1)>>
  <2>1. /\ y \in Seq(W) /\ Len(y) = n + 1
        /\ \A i \in 1..n : y[i] = P(i)
        /\ y[n + 1] = P(n + 1)
    BY <1>2, <1>3, <1>5
  <2>2. \A i \in 1..(n + 1) : Fields(c, n + 1)[i] = P(i)
    BY <1>2
  <2>3. \A i \in 1..(n + 1) : Fields(c, n + 1)[i] = y[i]
    BY <2>1, <2>2
  <2> HIDE DEF y
  <2>4. Fields(c, n + 1) = y
    BY <1>4, <2>1, <2>3, SeqEqual
  <2> QED BY <2>4 DEF y
<1>7. (Fields(c, n) \o <<P(n + 1)>>) \o x = Fields(c, n) \o (<<P(n + 1)>> \o x)
  <2>1. <<P(n + 1)>> \in Seq(W) /\ x \in Seq(W)
    BY <1>5 DEF W
  <2> QED BY <1>3, <2>1, ConcatAssociative
<1> QED BY <1>3, <1>6, <1>7 DEF W, P

\* The fields of a text are its first nine pieces, whatever follows.
LEMMA HeadTextSplits ==
  ASSUME NEW c, Writable(c)
  PROVE  /\ HeadText(c) \in Seq(Tokens) /\ Len(HeadText(c)) = 36
         /\ \A d \in Seq(Tokens) :
              SplitAll(HeadText(c) \o d, "&") = Fields(c, 9) \o SplitAll(d, "&")
<1> DEFINE q == Written9(c)
           P(i) == <<Header[i], "=", c.head[Header[i]]>>
           W == Seq(Tokens \ {"&"})
<1>1. \A i \in 1..9 : /\ P(i) \in W /\ P(i) \in Seq(Tokens) /\ Len(P(i)) = 3
                      /\ q[i] = P(i) \o <<"&">>
  <2>1. \A i \in 1..9 : P(i) \in W /\ q[i] = P(i) \o <<"&">>
    BY FieldTyped
  <2> QED BY <2>1
<1>2. "&" \in Tokens
  BY DEF Tokens
<1>3. Len(q) = 9
  <2>1. DOMAIN Header = 1..9
    BY HeaderNames
  <2> QED BY <2>1 DEF Written9
<1> HIDE DEF q, P, W
<1>4. PICK f : /\ FlattenSeq(q) = f[9]
               /\ f[1] = q[1]
               /\ \A i \in 1..9 : i # 1 => f[i] = f[i - 1] \o q[i]
  <2>1. 9 \in Nat /\ 9 # 0
    OBVIOUS
  <2> QED BY <1>3, <2>1, FlattenUnfolds
<1>5. \A i \in 1..9 : q[i] \in Seq(Tokens) /\ Len(q[i]) = 4
  <2>1. ASSUME NEW i \in 1..9 PROVE q[i] \in Seq(Tokens) /\ Len(q[i]) = 4
    <3>1. <<"&">> \in Seq(Tokens) /\ Len(<<"&">>) = 1
      BY <1>2
    <3>2. P(i) \in Seq(Tokens) /\ Len(P(i)) = 3 /\ q[i] = P(i) \o <<"&">>
      BY <1>1
    <3>3. /\ P(i) \o <<"&">> \in Seq(Tokens)
          /\ Len(P(i) \o <<"&">>) = Len(P(i)) + Len(<<"&">>)
      BY <3>1, <3>2, ConcatProperties
    <3> QED BY <3>1, <3>2, <3>3
  <2> QED BY <2>1
<1> DEFINE Upto(i) ==
             /\ f[i] \in Seq(Tokens) /\ Len(f[i]) = 4 * i
             /\ \A d \in Seq(Tokens) :
                  SplitAll(f[i] \o d, "&") = Fields(c, i) \o SplitAll(d, "&")
<1>6. \A i \in 1..9 : \A d \in Seq(Tokens) :
        SplitAll(q[i] \o d, "&") = <<P(i)>> \o SplitAll(d, "&")
  BY <1>1, <1>2, AllJoined DEF W
<1>7. \A d \in Seq(Tokens) : SplitAll(d, "&") \in Seq(Seq(Tokens))
  <2>1. ASSUME NEW d \in Seq(Tokens) PROVE SplitAll(d, "&") \in Seq(Seq(Tokens))
    <3>1. SplitAll(d, "&") \in Seq(Seq(Tokens \ {"&"}))
      BY AllTyped DEF SomePieces
    <3>2. Seq(Tokens \ {"&"}) \subseteq Seq(Tokens)
      OBVIOUS
    <3> QED BY <3>1, <3>2, SeqMonotonic
  <2> QED BY <2>1
<1>8. Upto(1)
  <2>1. ASSUME NEW d \in Seq(Tokens)
        PROVE  Fields(c, 1) \o SplitAll(d, "&") = <<P(1)>> \o SplitAll(d, "&")
    <3> DEFINE x == SplitAll(d, "&")
    <3>1. x \in Seq(Seq(Tokens)) /\ <<P(1)>> \o x \in Seq(Seq(Tokens))
      BY <1>1, <1>7
    <3>2. Fields(c, 1) = [i \in 1..1 |-> P(i)]
      BY Zenon DEF Fields, P
    <3>3. Fields(c, 1) = <<P(1)>>
      BY <3>2
    <3> QED BY <3>3
  <2>2. f[1] \in Seq(Tokens) /\ Len(f[1]) = 4
    BY <1>4, <1>5
  <2>3. \A d \in Seq(Tokens) :
          SplitAll(f[1] \o d, "&") = Fields(c, 1) \o SplitAll(d, "&")
    BY <1>4, <1>6, <2>1, 1 \in 1..9, Zenon
  <2> QED BY <2>2, <2>3
<1>9. ASSUME NEW n \in 1..8, Upto(n) PROVE Upto(n + 1)
  <2>1. n + 1 \in 1..9 /\ n + 1 # 1 /\ (n + 1) - 1 = n /\ n \in Nat
    OBVIOUS
  <2>2. f[n + 1] = f[n] \o q[n + 1]
    <3>1. f[n + 1] = f[(n + 1) - 1] \o q[n + 1]
      BY <1>4, <2>1, Zenon
    <3> QED BY <2>1, <3>1
  <2>3. f[n] \in Seq(Tokens) /\ Len(f[n]) = 4 * n /\ q[n + 1] \in Seq(Tokens)
        /\ Len(q[n + 1]) = 4
    BY <1>5, <1>9, <2>1
  <2>4. f[n + 1] \in Seq(Tokens) /\ Len(f[n + 1]) = 4 * (n + 1)
    <3>1. ASSUME NEW s \in Seq(Tokens), NEW t \in Seq(Tokens),
                 Len(s) = 4 * n, Len(t) = 4
          PROVE  s \o t \in Seq(Tokens) /\ Len(s \o t) = 4 * (n + 1)
      <4>1. s \o t \in Seq(Tokens) /\ Len(s \o t) = Len(s) + Len(t)
        BY ConcatProperties
      <4> QED BY <3>1, <4>1, <2>1
    <3> QED BY <2>2, <2>3, <3>1
  <2>5. ASSUME NEW d \in Seq(Tokens)
        PROVE  SplitAll(f[n + 1] \o d, "&") = Fields(c, n + 1) \o SplitAll(d, "&")
    <3>1. f[n + 1] \o d = f[n] \o (q[n + 1] \o d)
      <4>1. (f[n] \o q[n + 1]) \o d = f[n] \o (q[n + 1] \o d)
        <5>1. f[n] \in Seq(Tokens) /\ q[n + 1] \in Seq(Tokens)
          BY <2>3
        <5>2. \A x, y, z \in Seq(Tokens) : (x \o y) \o z = x \o (y \o z)
          BY ConcatAssociative
        <5> QED BY <5>1, <5>2, <2>5, Zenon
      <4> QED BY <2>2, <4>1
    <3>2. q[n + 1] \o d \in Seq(Tokens)
      BY <2>3
    <3>3. SplitAll(f[n] \o (q[n + 1] \o d), "&")
            = Fields(c, n) \o SplitAll(q[n + 1] \o d, "&")
      BY <1>9, <3>2, Zenon
    <3>4. SplitAll(q[n + 1] \o d, "&") = <<P(n + 1)>> \o SplitAll(d, "&")
      BY <1>6, <2>1, Zenon
    <3>5. Fields(c, n + 1) \o SplitAll(d, "&")
            = Fields(c, n) \o (<<P(n + 1)>> \o SplitAll(d, "&"))
      BY <1>7, <2>1, FieldsGrow DEF P
    <3> QED BY <3>1, <3>3, <3>4, <3>5
  <2> QED BY <2>4, <2>5
<1> HIDE DEF Upto
<1>10. Upto(9)
  <2>1. Upto(2)
    BY <1>8, <1>9, 1 \in 1..8, 1 + 1 = 2
  <2>2. Upto(3)
    BY <2>1, <1>9, 2 \in 1..8, 2 + 1 = 3
  <2>3. Upto(4)
    BY <2>2, <1>9, 3 \in 1..8, 3 + 1 = 4
  <2>4. Upto(5)
    BY <2>3, <1>9, 4 \in 1..8, 4 + 1 = 5
  <2>5. Upto(6)
    BY <2>4, <1>9, 5 \in 1..8, 5 + 1 = 6
  <2>6. Upto(7)
    BY <2>5, <1>9, 6 \in 1..8, 6 + 1 = 7
  <2>7. Upto(8)
    BY <2>6, <1>9, 7 \in 1..8, 7 + 1 = 8
  <2> QED BY <2>7, <1>9, 8 \in 1..8, 8 + 1 = 9
<1> QED BY <1>4, <1>10 DEF Upto, HeadText, q

\* ToString writes all fields and as much of the data as fits the buffer.
LEMMA ToStringIs ==
  ASSUME NEW c, Writable(c)
  PROVE  /\ CmdToString(c) \in Seq(Tokens)
         /\ Len(CmdToString(c)) <= MsgSize
         /\ \E d \in Seq(Tokens) :
              /\ CmdToString(c) = HeadText(c) \o d
              /\ 36 + Len(c.data) <= MsgSize => d = c.data
              /\ Len(CmdToString(c)) < MsgSize => d = c.data
              /\ \E n \in 0..Len(c.data) : d = SubSeq(c.data, 1, n)
<1> DEFINE u == HeadText(c)
           s == u \o c.data
           m == Min({Len(s), MsgSize})
           d == SubSeq(c.data, 1, m - 36)
<1>1. u \in Seq(Tokens) /\ Len(u) = 36
  BY HeadTextSplits
<1>2. c.data \in Seq(Tokens)
  BY DEF Writable
<1>3. CmdToString(c) = SubSeq(s, 1, m)
  <2>1. CmdToString(c) = Cut(s)
    BY Zenon DEF CmdToString, HeadText, Written9
  <2>2. Cut(s) = SubSeq(s, 1, m)
    BY Zenon DEF Cut
  <2> QED BY <2>1, <2>2, Zenon
<1>4. MsgSize \in Nat /\ MsgSize >= 45
  <2>1. MsgSize \in Nat /\ MsgSize >= 4 * Len(Header) + 9
    BY CmdCodecAssumption, Zenon
  <2>2. Len(Header) = 9
    BY HeaderNames
  <2> QED BY <2>1, <2>2
<1> HIDE DEF u
<1>5. s \in Seq(Tokens) /\ Len(s) = 36 + Len(c.data)
      /\ \A i \in 1..Len(s) : s[i] = IF i <= 36 THEN u[i] ELSE c.data[i - 36]
  <2>1. /\ s \in Seq(Tokens) /\ Len(s) = Len(u) + Len(c.data)
        /\ \A i \in 1..(Len(u) + Len(c.data)) :
             s[i] = IF i <= Len(u) THEN u[i] ELSE c.data[i - Len(u)]
    BY <1>1, <1>2, ConcatProperties, ZenonT(60)
  <2> QED BY <1>1, <2>1
<1>6. Len(c.data) \in Nat
  BY <1>2
<1> HIDE DEF s
<1>7. /\ m \in Nat /\ m >= 36 /\ m <= Len(s) /\ m <= MsgSize
      /\ 36 + Len(c.data) <= MsgSize => m = Len(s)
      /\ m < MsgSize => m = Len(s)
  <2>1. m \in {Len(s), MsgSize} /\ \A n \in {Len(s), MsgSize} : m <= n
    <3>1. {Len(s), MsgSize} \in SUBSET Nat
      BY <1>4, <1>5, <1>6
    <3> QED BY <3>1, MinOf
  <2> HIDE DEF m
  <2> QED BY <2>1, <1>4, <1>5, <1>6
<1> HIDE DEF m
<1>8. /\ SubSeq(s, 1, m) \in Seq(Tokens) /\ Len(SubSeq(s, 1, m)) = m
      /\ \A i \in 1..m : SubSeq(s, 1, m)[i] = s[i]
  <2>1. \A i \in 1..m : s[i] \in Tokens
    BY <1>5, <1>7
  <2>2. /\ SubSeq(s, 1, m) \in Seq(Tokens)
        /\ Len(SubSeq(s, 1, m)) = IF 1 <= m THEN m - 1 + 1 ELSE 0
        /\ \A i \in 1..(m - 1 + 1) : SubSeq(s, 1, m)[i] = s[1 + i - 1]
    BY <1>7, <2>1, SubSeqProperties
  <2> QED BY <1>7, <2>2
<1>9. /\ d \in Seq(Tokens) /\ Len(d) = m - 36
      /\ \A i \in 1..(m - 36) : d[i] = c.data[i]
  <2>1. m - 36 \in Nat /\ m - 36 <= Len(c.data)
    BY <1>5, <1>6, <1>7
  <2>2. \A i \in 1..(m - 36) : c.data[i] \in Tokens
    BY <1>2, <2>1
  <2>3. /\ d \in Seq(Tokens)
        /\ Len(d) = IF 1 <= m - 36 THEN m - 36 - 1 + 1 ELSE 0
        /\ \A i \in 1..(m - 36 - 1 + 1) : d[i] = c.data[1 + i - 1]
    BY <2>1, <2>2, SubSeqProperties
  <2> HIDE DEF d
  <2> QED BY <2>1, <2>3
<1>10. 36 + Len(c.data) <= MsgSize \/ m < MsgSize => d = c.data
  <2>1. SUFFICES ASSUME m - 36 = Len(c.data) PROVE d = c.data
    BY <1>5, <1>6, <1>7
  <2> HIDE DEF d
  <2> QED BY <1>2, <1>9, <2>1, SeqEqual
<1>12. m - 36 \in 0..Len(c.data) /\ d = SubSeq(c.data, 1, m - 36)
  BY <1>5, <1>6, <1>7
<1> HIDE DEF d
<1>11. SubSeq(s, 1, m) = u \o d
  <2> DEFINE x == SubSeq(s, 1, m)
             y == u \o d
  <2>1. /\ y \in Seq(Tokens) /\ Len(y) = Len(u) + Len(d)
        /\ \A i \in 1..(Len(u) + Len(d)) :
             y[i] = IF i <= Len(u) THEN u[i] ELSE d[i - Len(u)]
    BY <1>1, <1>9, ConcatProperties, ZenonT(60)
  <2>2. x \in Seq(Tokens) /\ Len(x) = m /\ Len(y) = m
    BY <1>1, <1>7, <1>8, <1>9, <2>1
  <2>3. ASSUME NEW i \in 1..m PROVE x[i] = y[i]
    <3>1. x[i] = IF i <= 36 THEN u[i] ELSE c.data[i - 36]
      BY <1>5, <1>7, <1>8
    <3>2. y[i] = IF i <= 36 THEN u[i] ELSE d[i - 36]
      BY <1>1, <1>7, <1>9, <2>1
    <3>3. i > 36 => d[i - 36] = c.data[i - 36]
      BY <1>7, <1>9
    <3> QED BY <1>7, <3>1, <3>2, <3>3
  <2> HIDE DEF x, y
  <2>4. x = y
    BY <2>1, <2>2, <2>3, SeqEqual
  <2> QED BY <2>4 DEF x, y
<1>13. Len(CmdToString(c)) = m
  BY <1>3, <1>8
<1>14. \E n \in 0..Len(c.data) : d = SubSeq(c.data, 1, n)
  BY <1>12, Zenon
<1> QED BY <1>3, <1>7, <1>8, <1>9, <1>10, <1>11, <1>13, <1>14 DEF u

-----------------------------------------------------------------------------
(* Reading a text.                                                         *)

\* What Trim leaves has no tokens but those it was given.
LEMMA TrimTyped ==
  ASSUME NEW T, NEW s \in Seq(T)
  PROVE  Trim(s) \in Seq(T)
<1> DEFINE kept == {i \in DOMAIN s : s[i] # " "}
<1>1. Len(s) \in Nat /\ DOMAIN s = 1..Len(s) /\ \A i \in 1..Len(s) : s[i] \in T
  OBVIOUS
<1>2. CASE kept = {}
  <2>1. Trim(s) = <<>>
    BY <1>2, Zenon DEF Trim
  <2> QED BY <2>1
<1>3. CASE kept # {}
  <2>1. Trim(s) = SubSeq(s, Min(kept), Max(kept))
    BY <1>3, Zenon DEF Trim
  <2>2. kept \in SUBSET (1..Len(s)) /\ kept \in SUBSET Nat
    <3>1. \A i \in kept : i \in 1..Len(s)
      BY <1>1
    <3>2. \A i \in 1..Len(s) : i \in Nat
      OBVIOUS
    <3> HIDE DEF kept
    <3> QED BY <3>1, <3>2
  <2>3. Min(kept) \in kept
    BY <1>3, <2>2, MinOf
  <2>4. Max(kept) \in kept
    BY <1>1, <1>3, <2>2, MaxOf
  <2>5. Min(kept) \in 1..Len(s) /\ Max(kept) \in 1..Len(s)
    BY <2>2, <2>3, <2>4, Zenon
  <2> HIDE DEF kept
  <2>6. \A i \in Min(kept)..Max(kept) : s[i] \in T
    BY <1>1, <2>5
  <2>7. SubSeq(s, Min(kept), Max(kept)) \in Seq(T)
    BY <2>5, <2>6, SubSeqProperties
  <2> QED BY <2>1, <2>7
<1> QED BY <1>2, <1>3

\* The positions of a sequence of one.
LEMMA OnlyOne == 1..1 = {1} /\ Min({1}) = 1 /\ Max({1}) = 1
<1>1. \E m \in {1} : \A y \in {1} : m =< y
  <2>1. 1 \in {1} /\ \A y \in {1} : 1 =< y
    OBVIOUS
  <2> QED BY <2>1, Zenon
<1>2. \E m \in {1} : \A y \in {1} : m >= y
  <2>1. 1 \in {1} /\ \A y \in {1} : 1 >= y
    OBVIOUS
  <2> QED BY <2>1, Zenon
<1>3. Min({1}) \in {1}
  BY <1>1, Zenon DEF Min
<1>4. Max({1}) \in {1}
  BY <1>2, Zenon DEF Max
<1>5. 1..1 = {1}
  OBVIOUS
<1> QED BY <1>3, <1>4, <1>5

\* A token alone is trimmed to itself.
LEMMA TrimOne ==
  ASSUME NEW x, x # " "
  PROVE  Trim(<<x>>) = <<x>>
<1> DEFINE s == <<x>>
           kept == {i \in DOMAIN s : s[i] # " "}
<1>1. s \in Seq({x}) /\ Len(s) = 1 /\ s[1] = x
  BY OneToken, x \in {x}
<1> HIDE DEF s
<1>2. kept = {1}
  <2>1. DOMAIN s = 1..1
    BY <1>1, LenProperties
  <2>2. 1..1 = {1}
    BY OnlyOne
  <2>3. \A i \in DOMAIN s : i = 1 /\ s[i] # " "
    BY <1>1, <2>1, <2>2
  <2>4. 1 \in DOMAIN s
    BY <2>1, <2>2
  <2> QED BY <2>3, <2>4
<1>3. Trim(s) = IF kept = {} THEN <<>> ELSE SubSeq(s, Min(kept), Max(kept))
  BY Zenon DEF Trim
<1> HIDE DEF kept
<1>4. Min({1}) = 1 /\ Max({1}) = 1
  BY OnlyOne
<1>5. SubSeq(s, 1, 1) = s
  <2>1. SubSeq(s, 1, Len(s)) = s
    BY <1>1, SubSeqFull
  <2> QED BY <1>1, <2>1
<1>6. Trim(s) = s
  BY <1>2, <1>3, <1>4, <1>5
<1> QED BY <1>6 DEF s

\* A field splits into its name and its value.
LEMMA FieldSplits ==
  ASSUME NEW a \in Tokens, NEW v \in Tokens, a # "=", v # "="
  PROVE  SplitString(<<a, "=", v>>, "=") = <<<<a>>, <<v>>>>
<1>1. "=" \in Tokens
  BY DEF Tokens
<1>2. /\ <<a>> \in Seq(Tokens \ {"="}) /\ <<v>> \in Seq(Tokens \ {"="})
      /\ <<v>> \in Seq(Tokens)
  BY OneToken
<1>3. (<<a>> \o <<"=">>) \o <<v>> = <<a, "=", v>>
  <2>1. <<a>> \o <<"=">> = <<a, "=">>
    BY TwoTokens
  <2>2. <<a, "=">> \o <<v>> = <<a, "=", v>>
    BY ThreeTokens
  <2> QED BY <2>1, <2>2, Zenon
<1>4. SplitAll((<<a>> \o <<"=">>) \o <<v>>, "=") = <<<<a>>>> \o SplitAll(<<v>>, "=")
  BY <1>1, <1>2, AllJoined
<1>5. /\ SplitAll(<<v>>, "=") = <<<<v>>>>
      /\ <<<<a>>>> \o <<<<v>>>> = <<<<a>>, <<v>>>>
  BY <1>2, AllPlain, TwoTokens
<1>6. SplitAll(<<a, "=", v>>, "=") = SplitString(<<a, "=", v>>, "=")
  <2>1. <<a, "=", v>> # <<>>
    OBVIOUS
  <2> QED BY <2>1, Zenon DEF SplitAll
<1> QED BY <1>2, <1>3, <1>4, <1>5, <1>6

\* The tokens of keys and values.
Plain == Tokens \ {"=", "&"}

\* The pairs of a text, position by position.
LEMMA PairsOfIs ==
  ASSUME NEW s
  PROVE  /\ DOMAIN PairsOf(s) = {i \in DOMAIN SplitString(s, "&") :
                                   Len(SplitString(SplitString(s, "&")[i], "=")) = 2}
         /\ \A i \in DOMAIN PairsOf(s) :
              PairsOf(s)[i] = <<Trim(SplitString(SplitString(s, "&")[i], "=")[1]),
                                Trim(SplitString(SplitString(s, "&")[i], "=")[2])>>
<1> DEFINE vStr == SplitString(s, "&")
           halves == [i \in DOMAIN vStr |-> SplitString(vStr[i], "=")]
           D == {j \in DOMAIN halves : Len(halves[j]) = 2}
<1>1. PairsOf(s) = [i \in D |-> <<Trim(halves[i][1]), Trim(halves[i][2])>>]
  BY Zenon DEF PairsOf
<1> HIDE DEF vStr
<1>2. DOMAIN halves = DOMAIN vStr
      /\ \A i \in DOMAIN vStr : halves[i] = SplitString(vStr[i], "=")
  OBVIOUS
<1> HIDE DEF halves
<1>3. D = {i \in DOMAIN vStr : Len(SplitString(vStr[i], "=")) = 2}
  BY <1>2
<1>4. \A i \in D : halves[i] = SplitString(vStr[i], "=")
  BY <1>2, <1>3
<1> HIDE DEF D
<1>5. /\ DOMAIN PairsOf(s) = D
      /\ \A i \in D : PairsOf(s)[i] = <<Trim(halves[i][1]), Trim(halves[i][2])>>
  BY <1>1
<1> QED BY <1>3, <1>4, <1>5 DEF vStr

\* Keys and values hold no separators.
LEMMA PairsTyped ==
  ASSUME NEW s \in Seq(Tokens)
  PROVE  /\ \E n \in Nat : DOMAIN PairsOf(s) \subseteq 1..n
         /\ \A i \in DOMAIN PairsOf(s) :
              PairsOf(s)[i][1] \in Seq(Plain) /\ PairsOf(s)[i][2] \in Seq(Plain)
<1> DEFINE vStr == SplitString(s, "&")
<1>1. vStr \in Seq(Seq(Tokens \ {"&"}))
  BY AllTyped
<1>2. Len(vStr) \in Nat /\ DOMAIN vStr = 1..Len(vStr)
      /\ \A i \in 1..Len(vStr) : vStr[i] \in Seq(Tokens \ {"&"})
  <2> HIDE DEF vStr
  <2> QED BY <1>1, LenProperties, ElementOfSeq
<1>3. DOMAIN PairsOf(s) \subseteq 1..Len(vStr)
  BY <1>2, PairsOfIs
<1>4. ASSUME NEW i \in DOMAIN PairsOf(s)
      PROVE  PairsOf(s)[i][1] \in Seq(Plain) /\ PairsOf(s)[i][2] \in Seq(Plain)
  <2> DEFINE half == SplitString(vStr[i], "=")
  <2>1. i \in 1..Len(vStr) /\ Len(half) = 2
    BY <1>2, <1>4, PairsOfIs
  <2>2. half \in Seq(Seq((Tokens \ {"&"}) \ {"="}))
    BY <1>2, <2>1, AllTyped
  <2>3. (Tokens \ {"&"}) \ {"="} = Plain
    BY DEF Plain
  <2> HIDE DEF half
  <2>4. half[1] \in Seq(Plain) /\ half[2] \in Seq(Plain)
    BY <2>1, <2>2, <2>3, SMTT(60)
  <2>5. Trim(half[1]) \in Seq(Plain) /\ Trim(half[2]) \in Seq(Plain)
    BY <2>4, TrimTyped
  <2>6. PairsOf(s)[i] = <<Trim(half[1]), Trim(half[2])>>
    BY <1>4, PairsOfIs, Zenon DEF half
  <2> QED BY <2>5, <2>6
<1> QED BY <1>2, <1>3, <1>4

\* strPairAppendToMap finds each key's first pair, and no other.
LEMMA MapIs ==
  ASSUME NEW s \in Seq(Tokens), NEW m, m = StrPairAppendToMap(s)
  PROVE  /\ DOMAIN m \subseteq Seq(Plain)
         /\ IsFiniteSet(DOMAIN m)
         /\ \A k \in DOMAIN m : m[k] \in Seq(Plain)
         /\ \A i \in DOMAIN PairsOf(s) : PairsOf(s)[i][1] \in DOMAIN m
         /\ \A k \in DOMAIN m :
              \E i \in DOMAIN PairsOf(s) :
                /\ PairsOf(s)[i] = <<k, m[k]>>
                /\ \A j \in DOMAIN PairsOf(s) : PairsOf(s)[j][1] = k => i <= j
<1> DEFINE pairs == PairsOf(s)
           K == {pairs[i][1] : i \in DOMAIN pairs}
<1>1. PICK n \in Nat : DOMAIN pairs \subseteq 1..n
  BY PairsTyped
<1>2. \A i \in DOMAIN pairs : pairs[i][1] \in Seq(Plain) /\ pairs[i][2] \in Seq(Plain)
  BY PairsTyped
<1>3. m = [k \in K |-> pairs[Min(PositionsOf(k, pairs))][2]]
  BY Zenon DEF StrPairAppendToMap
<1>4. \A i \in DOMAIN pairs : pairs[i] = <<pairs[i][1], pairs[i][2]>>
  <2>1. ASSUME NEW i \in DOMAIN pairs
        PROVE  pairs[i] = <<pairs[i][1], pairs[i][2]>>
    <3> DEFINE x == Trim(SplitString(SplitString(s, "&")[i], "=")[1])
               y == Trim(SplitString(SplitString(s, "&")[i], "=")[2])
    <3>1. pairs[i] = <<x, y>>
      BY PairsOfIs, Zenon
    <3> HIDE DEF pairs, x, y
    <3>2. pairs[i][1] = x /\ pairs[i][2] = y
      BY <3>1
    <3> QED BY <3>1, <3>2
  <2> QED BY <2>1
<1> HIDE DEF pairs
<1>5. DOMAIN m = K
  BY <1>3
<1>6. K \subseteq Seq(Plain)
  BY <1>2
<1>7. IsFiniteSet(K)
  <2>1. IsFiniteSet(DOMAIN pairs)
    BY <1>1, FS_Interval, FS_Subset, 1 \in Int, n \in Int
  <2> DEFINE f == [i \in DOMAIN pairs |-> pairs[i][1]]
  <2>2. f \in Surjection(DOMAIN pairs, K)
    BY DEF Surjection
  <2> HIDE DEF f, K
  <2> QED BY <2>1, <2>2, FS_Surjection
<1>8. ASSUME NEW k \in K
      PROVE  \E i \in DOMAIN pairs :
                /\ pairs[i] = <<k, m[k]>> /\ m[k] = pairs[i][2]
                /\ \A j \in DOMAIN pairs : pairs[j][1] = k => i <= j
  <2> DEFINE P == PositionsOf(k, pairs)
  <2>1. P = {i \in DOMAIN pairs : pairs[i][1] = k}
    BY DEF PositionsOf
  <2>2. P # {} /\ \A i \in P : i \in Nat
    BY <1>1, <2>1
  <2>3. Min(P) \in P /\ \A j \in P : Min(P) <= j
    BY <2>2, MinOf
  <2>4. m[k] = pairs[Min(P)][2]
    BY <1>3, Zenon
  <2> HIDE DEF P
  <2>5. Min(P) \in DOMAIN pairs /\ pairs[Min(P)][1] = k
    BY <2>1, <2>3
  <2>6. pairs[Min(P)] = <<k, m[k]>>
    BY <1>4, <2>4, <2>5
  <2> QED BY <2>1, <2>3, <2>4, <2>5, <2>6
<1>9. \A k \in DOMAIN m : m[k] \in Seq(Plain)
  BY <1>2, <1>5, <1>8
<1>10. \A i \in DOMAIN pairs : pairs[i][1] \in K
  OBVIOUS
<1> HIDE DEF K
<1> QED BY <1>5, <1>6, <1>7, <1>8, <1>9, <1>10 DEF pairs

\* The fields of a text are its first pairs.
LEMMA HeadPairs ==
  ASSUME NEW c, Writable(c), NEW d \in Seq(Tokens), NEW i \in 1..9
  PROVE  LET s == HeadText(c) \o d
         IN  /\ s \in Seq(Tokens)
             /\ i \in DOMAIN PairsOf(s)
             /\ PairsOf(s)[i] = <<<<Header[i]>>, <<c.head[Header[i]]>>>>
<1> DEFINE s == HeadText(c) \o d
           vStr == SplitString(s, "&")
           x == SplitAll(d, "&")
           h == Header[i]
           v == c.head[h]
<1>1. s \in Seq(Tokens) /\ s # <<>>
  <2>1. /\ HeadText(c) \in Seq(Tokens) /\ Len(HeadText(c)) = 36
    BY HeadTextSplits
  <2>2. s \in Seq(Tokens) /\ Len(s) = Len(HeadText(c)) + Len(d)
    BY <2>1, ConcatProperties
  <2>3. Len(s) = 36 + Len(d) /\ Len(d) \in Nat
    BY <2>1, <2>2
  <2> HIDE DEF s
  <2> QED BY <2>2, <2>3
<1>2. vStr = Fields(c, 9) \o x
  <2>1. SplitAll(s, "&") = Fields(c, 9) \o x
    BY HeadTextSplits
  <2> QED BY <1>1, <2>1, Zenon DEF SplitAll
<1>3. /\ Fields(c, 9) \in Seq(Seq(Tokens)) /\ x \in Seq(Seq(Tokens))
      /\ Len(Fields(c, 9)) = 9
      /\ Fields(c, 9)[i] = <<h, "=", v>>
  <2> DEFINE P(j) == <<Header[j], "=", c.head[Header[j]]>>
  <2>1. \A j \in 1..9 : P(j) \in Seq(Tokens)
    <3>1. \A j \in 1..9 : P(j) \in Seq(Tokens \ {"&"})
      BY FieldTyped
    <3> QED BY <3>1
  <2>2. Fields(c, 9) = [j \in 1..9 |-> P(j)]
    BY Zenon DEF Fields
  <2>3. x \in Seq(Seq(Tokens))
    <3>1. x \in Seq(Seq(Tokens \ {"&"}))
      BY AllTyped DEF SomePieces
    <3>2. Seq(Tokens \ {"&"}) \subseteq Seq(Tokens)
      OBVIOUS
    <3> HIDE DEF x
    <3> QED BY <3>1, <3>2, SeqMonotonic
  <2>4. Fields(c, 9)[i] = P(i)
    BY <2>2, Zenon
  <2>5. Fields(c, 9) \in Seq(Seq(Tokens)) /\ Len(Fields(c, 9)) = 9
    <3> DEFINE W == Seq(Tokens)
    <3>1. \A j \in 1..9 : P(j) \in W
      BY <2>1
    <3> HIDE DEF P, W
    <3>2. Fields(c, 9) \in Seq(W) /\ Len(Fields(c, 9)) = 9
      <4> DEFINE F == Fields(c, 9)
                 n == 9
      <4>1. F \in [1..n -> W] /\ n \in Nat
        BY <2>2, <3>1
      <4> HIDE DEF F, n
      <4>2. F \in Seq(W) /\ Len(F) = n
        BY <4>1, FunctionIsSeq
      <4> QED BY <4>2 DEF F, n
    <3> QED BY <3>2 DEF W
  <2> QED BY <2>3, <2>4, <2>5 DEF P
<1>4. i \in DOMAIN vStr /\ vStr[i] = <<h, "=", v>>
  <2> HIDE DEF x, vStr
  <2>1. /\ vStr \in Seq(Seq(Tokens)) /\ Len(vStr) = 9 + Len(x)
        /\ \A j \in 1..(9 + Len(x)) : vStr[j] = IF j <= 9 THEN Fields(c, 9)[j]
                                               ELSE x[j - 9]
    <3> DEFINE W == Seq(Tokens)
               F == Fields(c, 9)
    <3>1. F \in Seq(W) /\ x \in Seq(W) /\ Len(F) = 9 /\ vStr = F \o x
      BY <1>2, <1>3
    <3> HIDE DEF W, F
    <3>2. /\ vStr \in Seq(W) /\ Len(vStr) = Len(F) + Len(x)
          /\ \A j \in 1..(Len(F) + Len(x)) : vStr[j] = IF j <= Len(F) THEN F[j]
                                                        ELSE x[j - Len(F)]
      BY <3>1, ConcatProperties
    <3>3. /\ vStr \in Seq(W) /\ Len(vStr) = 9 + Len(x)
          /\ \A j \in 1..(9 + Len(x)) : vStr[j] = IF j <= 9 THEN F[j] ELSE x[j - 9]
      BY <3>1, <3>2
    <3> QED BY <3>3 DEF W, F
  <2>2. Len(x) \in Nat /\ DOMAIN vStr = 1..(9 + Len(x))
    BY <1>3, <2>1
  <2>3. i \in 1..(9 + Len(x)) /\ i <= 9
    BY <2>2
  <2> QED BY <1>3, <2>1, <2>2, <2>3
<1>5. h \in Tokens \ {"=", "&", " "} /\ v \in Tokens \ {"=", "&", " "}
  BY HeaderNames DEF Writable
<1> HIDE DEF s, h, v, vStr
<1>6. SplitString(vStr[i], "=") = <<<<h>>, <<v>>>>
  BY <1>4, <1>5, FieldSplits
<1>7. Trim(<<h>>) = <<h>> /\ Trim(<<v>>) = <<v>>
  BY <1>5, TrimOne
<1>8. /\ Len(<<<<h>>, <<v>>>>) = 2 /\ <<<<h>>, <<v>>>>[1] = <<h>>
      /\ <<<<h>>, <<v>>>>[2] = <<v>>
  OBVIOUS
<1>9. i \in DOMAIN PairsOf(s)
  BY <1>4, <1>6, <1>8, PairsOfIs DEF vStr
<1>10. PairsOf(s)[i] = <<Trim(SplitString(vStr[i], "=")[1]),
                         Trim(SplitString(vStr[i], "=")[2])>>
  BY <1>9, PairsOfIs, Zenon DEF vStr
<1> QED BY <1>1, <1>6, <1>7, <1>8, <1>9, <1>10 DEF s, h, v

-----------------------------------------------------------------------------
(* The order of the keys.                                                  *)

\* Each token of a key has its place in the order.
LEMMA RankTyped ==
  ASSUME NEW x \in Plain
  PROVE  Rank(x) \in Nat /\ Order[Rank(x)] = x
<1>1. Order \in Seq(Tokens) /\ Tokens \ {"=", "&"} \subseteq Range(Order)
  BY CmdCodecAssumption, Zenon
<1>2. \E i \in DOMAIN Order : Order[i] = x
  BY <1>1 DEF Plain, Range
<1>3. Rank(x) \in DOMAIN Order /\ Order[Rank(x)] = x
  BY <1>2, Zenon DEF Rank
<1>4. DOMAIN Order \subseteq Nat
  BY <1>1
<1> QED BY <1>3, <1>4

\* The order in terms of the first position that differs.
DiffersAt(s, t, i) ==
  /\ i \in 1..Len(s) /\ i \in 1..Len(t)
  /\ \A j \in 1..(i - 1) : s[j] = t[j]
  /\ Rank(s[i]) < Rank(t[i])

Begins(s, t) == Len(s) < Len(t) /\ \A j \in 1..Len(s) : s[j] = t[j]

\* Equal beginnings, token by token.
LEMMA SameBeginning ==
  ASSUME NEW T, NEW s \in Seq(T), NEW t \in Seq(T), NEW n \in Nat,
         n <= Len(s), n <= Len(t)
  PROVE  SubSeq(s, 1, n) = SubSeq(t, 1, n) <=> \A j \in 1..n : s[j] = t[j]
<1>1. ASSUME NEW q \in Seq(T), n <= Len(q)
      PROVE  /\ SubSeq(q, 1, n) \in Seq(T) /\ Len(SubSeq(q, 1, n)) = n
             /\ \A i \in 1..n : SubSeq(q, 1, n)[i] = q[i]
  BY <1>1
<1> DEFINE x == SubSeq(s, 1, n)
           y == SubSeq(t, 1, n)
<1>2. /\ x \in Seq(T) /\ Len(x) = n /\ \A i \in 1..n : x[i] = s[i]
      /\ y \in Seq(T) /\ Len(y) = n /\ \A i \in 1..n : y[i] = t[i]
  BY <1>1
<1> HIDE DEF x, y
<1>3. ASSUME x = y PROVE \A j \in 1..n : s[j] = t[j]
  BY <1>2, <1>3
<1>4. ASSUME \A j \in 1..n : s[j] = t[j] PROVE x = y
  BY <1>2, <1>4, SeqEqual
<1> QED BY <1>3, <1>4 DEF x, y

\* The order of keys looks at the first token that differs, or at the end.
LEMMA BeforeIs ==
  ASSUME NEW s \in Seq(Plain), NEW t \in Seq(Plain)
  PROVE  Before(s, t) <=> Begins(s, t) \/ \E i \in Nat : DiffersAt(s, t, i)
<1>1. /\ Len(s) \in Nat /\ Len(t) \in Nat
      /\ DOMAIN s = 1..Len(s) /\ DOMAIN t = 1..Len(t)
  OBVIOUS
<1>2. IsStrictPrefix(s, t) <=> Begins(s, t)
  <2>1. Len(s) <= Len(t) =>
          (SubSeq(s, 1, Len(s)) = SubSeq(t, 1, Len(s)) <=> \A j \in 1..Len(s) : s[j] = t[j])
    BY <1>1, SameBeginning
  <2>2. ASSUME IsStrictPrefix(s, t) PROVE Begins(s, t)
    <3>1. /\ Len(s) <= Len(t) /\ s # t
          /\ SubSeq(s, 1, Len(s)) = SubSeq(t, 1, Len(s))
      BY <2>2, Zenon DEF IsStrictPrefix, IsPrefix
    <3>2. \A j \in 1..Len(s) : s[j] = t[j]
      BY <2>1, <3>1
    <3>3. Len(s) # Len(t)
      <4>1. Len(s) = Len(t) => s = t
        BY <3>2, SeqEqual
      <4> QED BY <3>1, <4>1
    <3>4. Len(s) <= Len(t)
      BY <3>1
    <3>5. Len(s) < Len(t)
      <4>1. \A a, b \in Nat : a <= b /\ a # b => a < b
        OBVIOUS
      <4>2. Len(s) \in Nat /\ Len(t) \in Nat
        BY <1>1
      <4> QED BY <3>3, <3>4, <4>1, <4>2, Zenon
    <3> QED BY <3>2, <3>5, Zenon DEF Begins
  <2>3. ASSUME Begins(s, t) PROVE IsStrictPrefix(s, t)
    <3>1. Len(s) <= Len(t) /\ s # t /\ \A j \in 1..Len(s) : s[j] = t[j]
      BY <1>1, <2>3 DEF Begins
    <3> QED BY <2>1, <3>1, Zenon DEF IsStrictPrefix, IsPrefix
  <2> QED BY <2>2, <2>3
<1>3. ASSUME NEW i \in DOMAIN s \cap DOMAIN t
      PROVE  SubSeq(s, 1, i - 1) = SubSeq(t, 1, i - 1)
               <=> \A j \in 1..(i - 1) : s[j] = t[j]
  <2>1. i - 1 \in Nat /\ i - 1 <= Len(s) /\ i - 1 <= Len(t)
    BY <1>1
  <2> QED BY <2>1, SameBeginning
<1>4. (\E i \in DOMAIN s \cap DOMAIN t :
         /\ SubSeq(s, 1, i - 1) = SubSeq(t, 1, i - 1)
         /\ Rank(s[i]) < Rank(t[i]))
        <=> \E i \in Nat : DiffersAt(s, t, i)
  <2>1. ASSUME NEW i \in DOMAIN s \cap DOMAIN t,
               SubSeq(s, 1, i - 1) = SubSeq(t, 1, i - 1), Rank(s[i]) < Rank(t[i])
        PROVE  i \in Nat /\ DiffersAt(s, t, i)
    <3>1. \A j \in 1..(i - 1) : s[j] = t[j]
      BY <1>3, <2>1
    <3>2. i \in Nat /\ i \in 1..Len(s) /\ i \in 1..Len(t)
      BY <1>1
    <3> QED BY <2>1, <3>1, <3>2, Zenon DEF DiffersAt
  <2>2. ASSUME NEW i \in Nat, DiffersAt(s, t, i)
        PROVE  /\ i \in DOMAIN s \cap DOMAIN t
               /\ SubSeq(s, 1, i - 1) = SubSeq(t, 1, i - 1)
               /\ Rank(s[i]) < Rank(t[i])
    <3>1. /\ i \in DOMAIN s \cap DOMAIN t /\ Rank(s[i]) < Rank(t[i])
          /\ \A j \in 1..(i - 1) : s[j] = t[j]
      BY <1>1, <2>2 DEF DiffersAt
    <3> QED BY <1>3, <3>1, Zenon
  <2> QED BY <2>1, <2>2, Zenon
<1> QED BY <1>2, <1>4, Zenon DEF Before

\* No key is before itself.
LEMMA BeforeNotItself ==
  ASSUME NEW s \in Seq(Plain)
  PROVE  ~Before(s, s)
<1>1. ~Begins(s, s)
  BY DEF Begins
<1>2. ASSUME NEW i \in Nat, DiffersAt(s, s, i) PROVE FALSE
  <2>1. s[i] \in Plain /\ Rank(s[i]) < Rank(s[i])
    BY <1>2 DEF DiffersAt
  <2>2. Rank(s[i]) \in Nat
    BY <2>1, RankTyped
  <2> QED BY <2>1, <2>2
<1> QED BY <1>1, <1>2, BeforeIs

\* Of two keys one is before the other.
LEMMA BeforeTotal ==
  ASSUME NEW s \in Seq(Plain), NEW t \in Seq(Plain), s # t
  PROVE  Before(s, t) \/ Before(t, s)
<1> DEFINE D == {i \in Nat : i \in 1..Len(s) /\ i \in 1..Len(t) /\ s[i] # t[i]}
<1>1. Len(s) \in Nat /\ Len(t) \in Nat
  OBVIOUS
<1>2. CASE D = {}
  <2>1. \A i \in 1..Len(s) : i \in 1..Len(t) => s[i] = t[i]
    BY <1>1, <1>2
  <2>2. CASE Len(s) = Len(t)
    BY <2>1, <2>2, SeqEqual
  <2>3. CASE Len(s) < Len(t)
    <3>1. Begins(s, t)
      BY <1>1, <2>1, <2>3 DEF Begins
    <3> QED BY <3>1, BeforeIs
  <2>4. CASE Len(t) < Len(s)
    <3>1. Begins(t, s)
      BY <1>1, <2>1, <2>4 DEF Begins
    <3> QED BY <3>1, BeforeIs
  <2> QED BY <1>1, <2>2, <2>3, <2>4
<1>3. CASE D # {}
  <2>1. PICK i \in D : \A j \in D : i <= j
    BY <1>3, LeastOf, D \in SUBSET Nat
  <2>2. /\ i \in Nat /\ i \in 1..Len(s) /\ i \in 1..Len(t) /\ s[i] # t[i]
        /\ s[i] \in Plain /\ t[i] \in Plain
    OBVIOUS
  <2>3. \A j \in 1..(i - 1) : s[j] = t[j] /\ t[j] = s[j]
    <3>1. ASSUME NEW j \in 1..(i - 1) PROVE s[j] = t[j]
      <4>1. j \in Nat /\ j \in 1..Len(s) /\ j \in 1..Len(t) /\ ~(i <= j)
        BY <1>1, <2>2
      <4> QED BY <2>1, <4>1
    <3> QED BY <3>1
  <2>4. Rank(s[i]) \in Nat /\ Rank(t[i]) \in Nat /\ Rank(s[i]) # Rank(t[i])
    BY <2>2, RankTyped
  <2>5. Rank(s[i]) < Rank(t[i]) \/ Rank(t[i]) < Rank(s[i])
    BY <2>4
  <2>6. DiffersAt(s, t, i) \/ DiffersAt(t, s, i)
    BY <2>2, <2>3, <2>5 DEF DiffersAt
  <2> QED BY <2>2, <2>6, BeforeIs
<1> QED BY <1>2, <1>3

\* The order of keys is transitive.
LEMMA BeforeTransitive ==
  ASSUME NEW s \in Seq(Plain), NEW t \in Seq(Plain), NEW u \in Seq(Plain),
         Before(s, t), Before(t, u)
  PROVE  Before(s, u)
<1>1. Len(s) \in Nat /\ Len(t) \in Nat /\ Len(u) \in Nat
  OBVIOUS
<1>2. Begins(s, t) \/ \E i \in Nat : DiffersAt(s, t, i)
  BY BeforeIs
<1>3. Begins(t, u) \/ \E i \in Nat : DiffersAt(t, u, i)
  BY BeforeIs
<1>4. SUFFICES Begins(s, u) \/ \E i \in Nat : DiffersAt(s, u, i)
  BY BeforeIs
<1>5. CASE Begins(s, t) /\ Begins(t, u)
  BY <1>1, <1>5 DEF Begins
<1>6. ASSUME Begins(s, t), NEW i \in Nat, DiffersAt(t, u, i)
      PROVE  Begins(s, u) \/ \E k \in Nat : DiffersAt(s, u, k)
  <2>1. CASE i <= Len(s)
    <3>1. DiffersAt(s, u, i)
      BY <1>1, <1>6, <2>1 DEF Begins, DiffersAt
    <3> QED BY <3>1
  <2>2. CASE i > Len(s)
    <3>1. Begins(s, u)
      BY <1>1, <1>6, <2>2 DEF Begins, DiffersAt
    <3> QED BY <3>1
  <2> QED BY <1>1, <2>1, <2>2
<1>7. ASSUME NEW i \in Nat, DiffersAt(s, t, i), Begins(t, u)
      PROVE  DiffersAt(s, u, i)
  BY <1>1, <1>7 DEF Begins, DiffersAt
<1>8. ASSUME NEW i \in Nat, NEW j \in Nat, DiffersAt(s, t, i), DiffersAt(t, u, j)
      PROVE  \E k \in Nat : DiffersAt(s, u, k)
  <2>1. CASE i < j
    <3>1. DiffersAt(s, u, i)
      BY <1>1, <1>8, <2>1 DEF DiffersAt
    <3> QED BY <3>1
  <2>2. CASE j < i
    <3>1. DiffersAt(s, u, j)
      BY <1>1, <1>8, <2>2 DEF DiffersAt
    <3> QED BY <3>1
  <2>3. CASE i = j
    <3>1. /\ i \in 1..Len(s) /\ i \in 1..Len(t) /\ i \in 1..Len(u)
          /\ \A k \in 1..(i - 1) : s[k] = u[k]
          /\ Rank(s[i]) < Rank(t[i]) /\ Rank(t[i]) < Rank(u[i])
      BY <1>8, <2>3 DEF DiffersAt
    <3>2. Rank(s[i]) \in Nat /\ Rank(t[i]) \in Nat /\ Rank(u[i]) \in Nat
      BY <3>1, RankTyped
    <3>3. DiffersAt(s, u, i)
      BY <3>1, <3>2 DEF DiffersAt
    <3> QED BY <3>3
  <2> QED BY <2>1, <2>2, <2>3
<1> QED BY <1>2, <1>3, <1>5, <1>6, <1>7, <1>8, Zenon

\* The keys of a finite set, each at the place its order gives it.
LEMMA InOrderIs ==
  ASSUME NEW keys, keys \subseteq Seq(Plain), IsFiniteSet(keys)
  PROVE  /\ Cardinality(keys) \in Nat
         /\ InOrder(keys) \in [1..Cardinality(keys) -> keys]
         /\ \A k \in keys : \E i \in 1..Cardinality(keys) : InOrder(keys)[i] = k
         /\ \A i, j \in 1..Cardinality(keys) :
              InOrder(keys)[i] = InOrder(keys)[j] => i = j
         /\ \A i, j \in 1..Cardinality(keys) :
              i < j => Before(InOrder(keys)[i], InOrder(keys)[j])
<1> DEFINE n == Cardinality(keys)
           Below(k) == {o \in keys : Before(o, k)}
           r == [k \in keys |-> Cardinality(Below(k)) + 1]
<1>1. n \in Nat
  BY FS_CardinalityType
<1>2. ASSUME NEW k \in keys
      PROVE  /\ IsFiniteSet(Below(k)) /\ Cardinality(Below(k)) \in Nat
             /\ Cardinality(Below(k)) <= n - 1
  <2>1. Below(k) \in SUBSET keys
    OBVIOUS
  <2>2. k \notin Below(k)
    <3>1. ~Before(k, k)
      BY BeforeNotItself
    <3> QED BY <3>1
  <2> HIDE DEF Below
  <2>3. IsFiniteSet(Below(k)) /\ Cardinality(Below(k)) <= n
        /\ (n = Cardinality(Below(k)) => keys = Below(k))
    BY <2>1, FS_Subset
  <2>4. Cardinality(Below(k)) \in Nat
    BY <2>3, FS_CardinalityType
  <2>5. n # Cardinality(Below(k))
    BY <2>2, <2>3
  <2> HIDE DEF n
  <2> QED BY <1>1, <2>3, <2>4, <2>5
<1>3. ASSUME NEW o \in keys, NEW k \in keys, Before(o, k)
      PROVE  Cardinality(Below(o)) < Cardinality(Below(k))
  <2>1. Below(o) \in SUBSET Below(k)
    <3>1. ASSUME NEW x \in Below(o) PROVE x \in Below(k)
      <4>1. x \in keys /\ Before(x, o)
        BY <3>1
      <4>2. Before(x, k)
        BY <1>3, <4>1, BeforeTransitive
      <4> QED BY <4>1, <4>2
    <3> HIDE DEF Below
    <3> QED BY <3>1
  <2>2. o \in Below(k) /\ o \notin Below(o)
    <3>1. ~Before(o, o)
      BY BeforeNotItself
    <3> QED BY <1>3, <3>1
  <2>3. IsFiniteSet(Below(k)) /\ Cardinality(Below(k)) \in Nat
        /\ Cardinality(Below(o)) \in Nat
    BY <1>2
  <2> HIDE DEF Below
  <2>4. Cardinality(Below(o)) <= Cardinality(Below(k))
        /\ (Cardinality(Below(k)) = Cardinality(Below(o)) => Below(k) = Below(o))
    BY <2>1, <2>3, FS_Subset
  <2> QED BY <2>2, <2>3, <2>4
<1>4. r \in [keys -> 1..n]
  <2>1. \A k \in keys : Cardinality(Below(k)) + 1 \in 1..n
    <3> HIDE DEF Below, n
    <3> QED BY <1>1, <1>2
  <2> HIDE DEF Below, n
  <2> QED BY <2>1
<1>5. \A k \in keys : r[k] = Cardinality(Below(k)) + 1
  BY Zenon
<1>6. ASSUME NEW o \in keys, NEW k \in keys, r[o] = r[k] PROVE o = k
  <2>1. Cardinality(Below(o)) \in Nat /\ Cardinality(Below(k)) \in Nat
    BY <1>2
  <2>2. ~Before(o, k) /\ ~Before(k, o)
    <3>1. ~(Cardinality(Below(o)) < Cardinality(Below(k)))
          /\ ~(Cardinality(Below(k)) < Cardinality(Below(o)))
      <4> HIDE DEF Below, r
      <4> QED BY <1>5, <1>6, <2>1
    <3> QED BY <1>3, <3>1, Zenon
  <2> QED BY <2>2, BeforeTotal
<1>7. r \in Injection(keys, 1..n)
  <2> HIDE DEF r, n
  <2> QED BY <1>4, <1>6 DEF Injection, IsInjective
<1>8. r \in Surjection(keys, 1..n)
  <2>1. IsFiniteSet(1..n) /\ Cardinality(1..n) = n
    BY <1>1, FS_Interval
  <2> HIDE DEF r
  <2> QED BY <1>7, <2>1, FS_Injection
<1>9. \A i \in 1..n : \E k \in keys : r[k] = i
  BY <1>8 DEF Surjection
<1> DEFINE At(i) == CHOOSE k \in keys : Cardinality({o \in keys : Before(o, k)}) = i - 1
<1>10. ASSUME NEW i \in 1..n PROVE At(i) \in keys /\ r[At(i)] = i
  <2>1. \E k \in keys : Cardinality(Below(k)) = i - 1
    <3>1. PICK k \in keys : r[k] = i
      BY <1>9
    <3>2. Cardinality(Below(k)) \in Nat /\ r[k] = Cardinality(Below(k)) + 1
      BY <1>2, <1>5
    <3> HIDE DEF r, Below
    <3> QED BY <3>1, <3>2
  <2>2. At(i) \in keys /\ Cardinality(Below(At(i))) = i - 1
    BY <2>1, Zenon
  <2> HIDE DEF At, Below
  <2> QED BY <2>2, <1>5
<1>11. InOrder(keys) = [i \in 1..n |-> At(i)]
  BY Zenon DEF InOrder
<1>16. ASSUME NEW i \in 1..n, NEW j \in 1..n, i < j PROVE Before(At(i), At(j))
  <2>1. /\ At(i) \in keys /\ r[At(i)] = i
        /\ At(j) \in keys /\ r[At(j)] = j
    BY <1>10
  <2> DEFINE o == At(i)
             k == At(j)
  <2> HIDE DEF At, r
  <2>2. Cardinality(Below(o)) \in Nat /\ Cardinality(Below(k)) \in Nat
    BY <1>2, <2>1
  <2>3. Cardinality(Below(o)) + 1 = i /\ Cardinality(Below(k)) + 1 = j
    BY <1>5, <2>1, Zenon
  <2> DEFINE a == Cardinality(Below(o))
             b == Cardinality(Below(k))
  <2>4. ~(b < a) /\ o # k
    <3>1. a \in Nat /\ b \in Nat /\ a + 1 = i /\ b + 1 = j
      BY <2>2, <2>3, Zenon
    <3> HIDE DEF a, b
    <3>2. ~(b < a) /\ a # b
      BY <1>16, <3>1
    <3>3. o # k
      BY <3>2, Zenon DEF a, b
    <3> QED BY <3>2, <3>3
  <2>5. ~Before(k, o)
    BY <1>3, <2>1, <2>4, Zenon
  <2>6. o \in Seq(Plain) /\ k \in Seq(Plain)
    BY <2>1, Zenon
  <2> HIDE DEF a, b, o, k, Below
  <2>7. Before(o, k)
    BY <2>4, <2>5, <2>6, BeforeTotal, Zenon
  <2> QED BY <2>7, Zenon DEF o, k
<1> HIDE DEF At, r, n
<1>12. \A i \in 1..n : InOrder(keys)[i] = At(i)
  BY <1>11
<1>13. InOrder(keys) \in [1..n -> keys]
  BY <1>10, <1>11
<1>14. ASSUME NEW k \in keys PROVE \E i \in 1..n : InOrder(keys)[i] = k
  <2>1. r[k] \in 1..n
    BY <1>4
  <2>2. At(r[k]) \in keys /\ r[At(r[k])] = r[k]
    BY <1>10, <2>1
  <2>3. At(r[k]) = k
    BY <1>6, <2>2
  <2> QED BY <1>12, <2>1, <2>3
<1>15. \A i, j \in 1..n : InOrder(keys)[i] = InOrder(keys)[j] => i = j
  BY <1>10, <1>12
<1>17. \A i, j \in 1..n : i < j => Before(InOrder(keys)[i], InOrder(keys)[j])
  BY <1>12, <1>16, Zenon
<1> QED BY <1>1, <1>13, <1>14, <1>15, <1>17 DEF n

-----------------------------------------------------------------------------
(* InitCCmd: what is read is a CCmd, and its fields are those written.     *)

FoundIn(s) == {f \in Range(Header) : <<f>> \in DOMAIN StrPairAppendToMap(s)}
RestOf(s) == InOrder(DOMAIN StrPairAppendToMap(s) \ {<<f>> : f \in FoundIn(s)})

\* One pair of the data.
DataPair(s, i) ==
  (IF i = 1 THEN <<>> ELSE <<"&">>)
    \o RestOf(s)[i] \o <<"=">> \o StrPairAppendToMap(s)[RestOf(s)[i]]

\* The fields and the data that InitCCmd reads.
LEMMA InitIs ==
  ASSUME NEW s
  PROVE  /\ DOMAIN InitCCmd(s).head = Range(Header)
         /\ \A f \in Range(Header) :
              InitCCmd(s).head[f] = IF f \in FoundIn(s)
                                      THEN FieldOf(f, StrPairAppendToMap(s)[<<f>>])
                                    ELSE FreshCmd.head[f]
         /\ InitCCmd(s) = [head |-> InitCCmd(s).head, data |-> InitCCmd(s).data]
         /\ InitCCmd(s).head = [f \in Range(Header) |-> InitCCmd(s).head[f]]
         /\ InitCCmd(s).data = FlattenSeq([i \in DOMAIN RestOf(s) |-> DataPair(s, i)])
<1> DEFINE h == [f \in Range(Header) |->
                   IF f \in FoundIn(s) THEN FieldOf(f, StrPairAppendToMap(s)[<<f>>])
                   ELSE FreshCmd.head[f]]
           d == FlattenSeq([i \in DOMAIN RestOf(s) |-> DataPair(s, i)])
<1>1. InitCCmd(s) = [head |-> h, data |-> d]
  BY Zenon DEF InitCCmd, FoundIn, RestOf, DataPair
<1> HIDE DEF d
<1>2. DOMAIN h = Range(Header)
      /\ \A f \in Range(Header) :
           h[f] = IF f \in FoundIn(s) THEN FieldOf(f, StrPairAppendToMap(s)[<<f>>])
                  ELSE FreshCmd.head[f]
  BY Zenon
<1> HIDE DEF h
<1>3. InitCCmd(s).head = h /\ InitCCmd(s).data = d
  BY <1>1
<1>4. h = [f \in Range(Header) |-> h[f]]
  BY Zenon DEF h
<1> QED BY <1>1, <1>2, <1>3, <1>4, Zenon DEF d

\* The fields of a new CCmd.
LEMMA FreshFields ==
  \A f \in Range(Header) : FreshCmd.head[f] = IF f = "cliIp" THEN "" ELSE "0"
<1> DEFINE h == [f \in Range(Header) |-> IF f = "cliIp" THEN "" ELSE "0"]
<1>1. FreshCmd.head = h
  BY DEF FreshCmd
<1>2. \A f \in Range(Header) : h[f] = IF f = "cliIp" THEN "" ELSE "0"
  BY Zenon
<1> HIDE DEF h
<1> QED BY <1>1, <1>2, Zenon

\* The numbers the code itself writes.
LEMMA KnownNumbers ==
  {"0", "1", "2", "serial", UNFINISH_TASK_RET_FLAG} \subseteq Numbers
BY CmdCodecAssumption, Zenon

\* A new CCmd has its type.
LEMMA FreshOK == CmdOK(FreshCmd)
<1>2. "0" \in Numbers /\ "0" \in Tokens /\ "" \in Tokens
  BY KnownNumbers DEF Tokens
<1>3. \A f \in Range(Header) \ {"cliIp"} : FreshCmd.head[f] \in Numbers
  BY <1>2, FreshFields
<1>4. FreshCmd \in [head : [Range(Header) -> Tokens], data : Seq(Tokens)]
  <2> DEFINE h == [f \in Range(Header) |-> IF f = "cliIp" THEN "" ELSE "0"]
  <2>1. h \in [Range(Header) -> Tokens]
    BY <1>2
  <2>2. <<>> \in Seq(Tokens)
    OBVIOUS
  <2>3. FreshCmd = [head |-> h, data |-> <<>>]
    BY Zenon DEF FreshCmd
  <2> HIDE DEF h
  <2> QED BY <2>1, <2>2, <2>3
<1> QED BY <1>3, <1>4, Zenon DEF CmdOK

\* A field that is read is a number, whatever the text, but for cliIp.
LEMMA FieldOfTyped ==
  ASSUME NEW f \in Range(Header) \ {"cliIp"}, NEW v
  PROVE  FieldOf(f, v) \in Numbers
<1>1. FreshCmd.head[f] \in Numbers /\ "0" \in Numbers
  BY FreshFields, KnownNumbers
<1> QED BY <1>1 DEF FieldOf

\* The data that is read is made of tokens.
LEMMA DataTyped ==
  ASSUME NEW s \in Seq(Tokens)
  PROVE  InitCCmd(s).data \in Seq(Tokens)
<1> DEFINE m == StrPairAppendToMap(s)
           keys == DOMAIN m \ {<<f>> : f \in FoundIn(s)}
           rest == RestOf(s)
           q == [i \in DOMAIN rest |-> DataPair(s, i)]
<1>1. /\ DOMAIN m \subseteq Seq(Plain) /\ IsFiniteSet(DOMAIN m)
      /\ \A k \in DOMAIN m : m[k] \in Seq(Plain)
  BY MapIs
<1>2. keys \subseteq Seq(Plain) /\ IsFiniteSet(keys) /\ keys \subseteq DOMAIN m
  <2> HIDE DEF m
  <2>1. keys \in SUBSET (DOMAIN m)
    OBVIOUS
  <2> HIDE DEF keys
  <2> QED BY <1>1, <2>1, FS_Subset
<1>3. rest = InOrder(keys)
  BY Zenon DEF RestOf
<1> HIDE DEF m, keys, rest
<1> DEFINE n == Cardinality(keys)
<1>4. n \in Nat /\ rest \in [1..n -> keys]
  BY <1>2, <1>3, InOrderIs
<1>5. ASSUME NEW i \in 1..n PROVE DataPair(s, i) \in Seq(Tokens)
  <2>1. rest[i] \in keys
    BY <1>4
  <2>2. rest[i] \in Seq(Tokens) /\ m[rest[i]] \in Seq(Tokens)
    <3>1. Seq(Plain) \subseteq Seq(Tokens)
      BY DEF Plain
    <3> QED BY <1>1, <1>2, <2>1, <3>1
  <2>3. <<"&">> \in Seq(Tokens) /\ <<"=">> \in Seq(Tokens) /\ <<>> \in Seq(Tokens)
    <3>1. "&" \in Tokens /\ "=" \in Tokens
      BY DEF Tokens
    <3> QED BY <3>1
  <2>4. DataPair(s, i) = (IF i = 1 THEN <<>> ELSE <<"&">>)
                           \o rest[i] \o <<"=">> \o m[rest[i]]
    BY Zenon DEF DataPair, m, rest
  <2> QED BY <2>2, <2>3, <2>4
<1>6. q \in Seq(Seq(Tokens))
  <2>1. DOMAIN rest = 1..n
    BY <1>4
  <2> DEFINE W == Seq(Tokens)
  <2>2. \A i \in 1..n : DataPair(s, i) \in W
    BY <1>5
  <2> HIDE DEF W
  <2>3. q \in [1..n -> W]
    BY <2>1, <2>2
  <2>4. q \in Seq(W)
    BY <1>4, <2>3, FunctionIsSeq
  <2> QED BY <2>4 DEF W
<1>7. InitCCmd(s).data = FlattenSeq(q)
  BY InitIs, Zenon DEF rest
<1> HIDE DEF q
<1> QED BY <1>6, <1>7, FlattenTyped

\* InitCCmd makes a CCmd of any text: fields that are no numbers are zero.
LEMMA InitTyped ==
  ASSUME NEW s \in Seq(Tokens)
  PROVE  CmdOK(InitCCmd(s))
<1> DEFINE h == InitCCmd(s).head
           m == StrPairAppendToMap(s)
<1>1. InitCCmd(s) = [head |-> h, data |-> InitCCmd(s).data]
      /\ h = [f \in Range(Header) |-> h[f]]
      /\ \A f \in Range(Header) :
           h[f] = IF f \in FoundIn(s) THEN FieldOf(f, m[<<f>>]) ELSE FreshCmd.head[f]
  BY InitIs, Zenon
<1> HIDE DEF h
<1>2. /\ \A f \in Range(Header) \ {"cliIp"} : FreshCmd.head[f] \in Numbers
      /\ \A f \in Range(Header) : FreshCmd.head[f] \in Tokens
  BY FreshOK DEF CmdOK
<1>3. \A f \in Range(Header) \ {"cliIp"} : h[f] \in Numbers
  BY <1>1, <1>2, FieldOfTyped
<1>4. ASSUME NEW f \in Range(Header) PROVE h[f] \in Tokens
  <2>1. CASE f # "cliIp"
    <3>1. h[f] \in Numbers
      BY <1>3, <2>1
    <3>2. Numbers \subseteq Tokens
      BY Zenon DEF Tokens
    <3> QED BY <3>1, <3>2
  <2>2. CASE f = "cliIp" /\ f \in FoundIn(s)
    <3>1. <<f>> \in DOMAIN m
      BY <2>2 DEF FoundIn
    <3>2. m[<<f>>] \in Seq(Plain)
      BY <3>1, MapIs
    <3>3. h[f] = FieldOf(f, m[<<f>>])
      BY <1>1, <2>2
    <3> HIDE DEF m
    <3>4. CASE m[<<f>>] = <<>>
      BY <1>2, <3>3, <3>4, Zenon DEF FieldOf
    <3>5. CASE m[<<f>>] # <<>>
      <4>1. m[<<f>>][1] \in Plain
        BY <3>2, <3>5
      <4>2. h[f] = m[<<f>>][1]
        BY <2>2, <3>3, <3>5, Zenon DEF FieldOf
      <4> QED BY <4>1, <4>2 DEF Plain
    <3> QED BY <3>4, <3>5
  <2>3. CASE f \notin FoundIn(s)
    BY <1>1, <1>2, <2>3
  <2> QED BY <2>1, <2>2, <2>3
<1>5. h \in [Range(Header) -> Tokens]
  BY <1>1, <1>4
<1>6. InitCCmd(s).data \in Seq(Tokens)
  BY DataTyped
<1>7. InitCCmd(s) \in [head : [Range(Header) -> Tokens], data : Seq(Tokens)]
  BY <1>1, <1>5, <1>6
<1> QED BY <1>3, <1>7 DEF CmdOK, h

\* What a CCmd must be for its fields to be read as they were written.
Faithful(c) ==
  /\ CmdOK(c)
  /\ c.head["cliIp"] \in {"", Socket["cliIp"]}

\* Such a command's fields hold no separators.
LEMMA FaithfulWritable ==
  ASSUME NEW c, Faithful(c)
  PROVE  Writable(c)
<1>1. {"=", "&", " "} \cap (Numbers \cup {Socket["cliIp"]}) = {}
  BY CmdCodecAssumption, Zenon
<1>2. Numbers \cup {Socket["cliIp"], ""} \subseteq Tokens
  BY Zenon DEF Tokens
<1>3. \A f \in Range(Header) : c.head[f] \in Numbers \cup {Socket["cliIp"], ""}
  BY DEF Faithful, CmdOK
<1>4. \A x \in Numbers \cup {Socket["cliIp"], ""} : x \in Tokens \ {"=", "&", " "}
  <2>1. "" \notin {"=", "&", " "}
    OBVIOUS
  <2> QED BY <1>1, <1>2, <2>1
<1>5. c.data \in Seq(Tokens)
  BY DEF Faithful, CmdOK
<1> QED BY <1>3, <1>4, <1>5, Zenon DEF Writable

\* The fields written are the fields read.
LEMMA HeadSurvives ==
  ASSUME NEW c, Faithful(c), NEW d \in Seq(Tokens), NEW f \in Range(Header)
  PROVE  InitCCmd(HeadText(c) \o d).head[f] = c.head[f]
<1> DEFINE s == HeadText(c) \o d
           m == StrPairAppendToMap(s)
           pairs == PairsOf(s)
<1>1. Writable(c)
  BY FaithfulWritable
<1>2. PICK i \in 1..9 : Header[i] = f
  BY HeaderNames DEF Range
<1>3. /\ s \in Seq(Tokens)
      /\ \A j \in 1..9 : /\ j \in DOMAIN pairs
                         /\ pairs[j] = <<<<Header[j]>>, <<c.head[Header[j]]>>>>
  BY <1>1, HeadPairs
<1> HIDE DEF s
<1>33. /\ \A j \in DOMAIN pairs : pairs[j][1] \in DOMAIN m
       /\ \A k \in DOMAIN m :
            \E j \in DOMAIN pairs :
              /\ pairs[j] = <<k, m[k]>>
              /\ \A l \in DOMAIN pairs : pairs[l][1] = k => j <= l
  BY <1>3, MapIs
<1> HIDE DEF pairs, m
<1>4. /\ pairs[i][1] = <<f>> /\ i \in DOMAIN pairs
  <2>1. pairs[i] = <<<<f>>, <<c.head[f]>>>>
    BY <1>2, <1>3
  <2> QED BY <1>3, <2>1
<1>5. <<f>> \in DOMAIN m
  BY <1>4, <1>33
<1>6. PICK k \in DOMAIN pairs :
        /\ pairs[k] = <<<<f>>, m[<<f>>]>>
        /\ \A j \in DOMAIN pairs : pairs[j][1] = <<f>> => k <= j
  BY <1>5, <1>33
<1>7. k \in 1..9
  <2>1. k <= i
    BY <1>4, <1>6
  <2>2. \E n \in Nat : DOMAIN pairs \subseteq 1..n
    BY <1>3, PairsTyped DEF pairs
  <2>3. k \in Nat /\ k >= 1
    BY <1>6, <2>2
  <2> QED BY <2>1, <2>3
<1>8. m[<<f>>] = <<c.head[f]>>
  <2>1. pairs[k] = <<<<Header[k]>>, <<c.head[Header[k]]>>>>
    BY <1>3, <1>7
  <2>2. <<f>> = <<Header[k]>> /\ m[<<f>>] = <<c.head[Header[k]]>>
    BY <1>6, <2>1
  <2>3. f = Header[k]
    BY <2>2
  <2> QED BY <2>2, <2>3
<1>9. InitCCmd(s).head[f] = FieldOf(f, <<c.head[f]>>)
  <2>1. f \in FoundIn(s)
    BY <1>5 DEF FoundIn, m
  <2>2. InitCCmd(s).head[f] = FieldOf(f, m[<<f>>])
    BY <2>1, InitIs, Zenon DEF m
  <2> QED BY <1>8, <2>2
<1>10. f = "cliIp" \/ c.head[f] \in Numbers
  BY DEF Faithful, CmdOK
<1>11. FieldOf(f, <<c.head[f]>>) = c.head[f]
  <2>1. <<c.head[f]>> # <<>> /\ <<c.head[f]>>[1] = c.head[f]
    OBVIOUS
  <2> QED BY <1>10, <2>1, Zenon DEF FieldOf
<1> QED BY <1>9, <1>11 DEF s

-----------------------------------------------------------------------------
(* Pairs that are written are the pairs that are read.                     *)

\* A text that Trim leaves as it is.
Trimmed(u) == u = <<>> \/ (u[1] # " " /\ u[Len(u)] # " ")

\* Trim takes the blanks from both ends.
LEMMA TrimTrims ==
  ASSUME NEW T, NEW s \in Seq(T)
  PROVE  Trimmed(Trim(s))
<1> DEFINE kept == {i \in DOMAIN s : s[i] # " "}
<1>1. Len(s) \in Nat /\ DOMAIN s = 1..Len(s) /\ \A i \in 1..Len(s) : s[i] \in T
  OBVIOUS
<1>2. CASE kept = {}
  <2>1. Trim(s) = <<>>
    BY <1>2, Zenon DEF Trim
  <2> QED BY <2>1, Zenon DEF Trimmed
<1>3. CASE kept # {}
  <2>1. Trim(s) = SubSeq(s, Min(kept), Max(kept))
    BY <1>3, Zenon DEF Trim
  <2>2. kept \in SUBSET (1..Len(s)) /\ kept \in SUBSET Nat
    <3>1. \A i \in kept : i \in 1..Len(s)
      BY <1>1
    <3>2. \A i \in 1..Len(s) : i \in Nat
      OBVIOUS
    <3> HIDE DEF kept
    <3> QED BY <3>1, <3>2
  <2> DEFINE a == Min(kept)
             b == Max(kept)
  <2>3. a \in kept /\ \A j \in kept : a <= j
    BY <1>3, <2>2, MinOf
  <2>4. b \in kept
    BY <1>1, <1>3, <2>2, MaxOf
  <2>5. s[a] # " " /\ s[b] # " "
    <3>1. \A i \in kept : s[i] # " "
      OBVIOUS
    <3> HIDE DEF kept, a, b
    <3> QED BY <2>3, <2>4, <3>1, Zenon
  <2>6. a \in 1..Len(s) /\ b \in 1..Len(s) /\ a <= b
    BY <2>2, <2>3, <2>4, Zenon
  <2> HIDE DEF kept, a, b
  <2> DEFINE u == SubSeq(s, a, b)
  <2>7. \A i \in a..b : s[i] \in T
    BY <1>1, <2>6
  <2>8. /\ u \in Seq(T) /\ Len(u) = b - a + 1
        /\ \A i \in 1..(b - a + 1) : u[i] = s[a + i - 1]
    BY <2>6, <2>7, SubSeqProperties
  <2> HIDE DEF u
  <2>9. u[1] = s[a] /\ u[Len(u)] = s[b]
    <3>1. 1 \in 1..(b - a + 1) /\ b - a + 1 \in 1..(b - a + 1)
          /\ a + 1 - 1 = a /\ a + (b - a + 1) - 1 = b
      BY <2>6
    <3>2. u[1] = s[a + 1 - 1] /\ u[b - a + 1] = s[a + (b - a + 1) - 1]
      BY <2>8, <3>1
    <3> QED BY <2>8, <3>1, <3>2
  <2>10. Trimmed(u)
    BY <2>5, <2>9, Zenon DEF Trimmed
  <2> QED BY <2>1, <2>10 DEF a, b, u
<1> QED BY <1>2, <1>3

\* And does nothing more.
LEMMA TrimKeeps ==
  ASSUME NEW T, NEW u \in Seq(T), Trimmed(u)
  PROVE  Trim(u) = u
<1> DEFINE kept == {i \in DOMAIN u : u[i] # " "}
<1>1. Len(u) \in Nat /\ DOMAIN u = 1..Len(u) /\ \A i \in 1..Len(u) : u[i] \in T
  OBVIOUS
<1>2. CASE u = <<>>
  <2>1. kept = {}
    BY <1>2
  <2> QED BY <1>2, <2>1, Zenon DEF Trim
<1>3. CASE u # <<>>
  <2>1. u[1] # " " /\ u[Len(u)] # " "
    BY <1>3, Zenon DEF Trimmed
  <2>2. Len(u) >= 1
    BY <1>3, <1>1, EmptySeq
  <2>3. 1 \in kept /\ Len(u) \in kept
    <3>1. 1 \in DOMAIN u /\ Len(u) \in DOMAIN u
      BY <1>1, <2>2
    <3> QED BY <2>1, <3>1
  <2>4. kept \in SUBSET (1..Len(u)) /\ kept \in SUBSET Nat
    <3>1. \A i \in kept : i \in 1..Len(u)
      BY <1>1
    <3>2. \A i \in 1..Len(u) : i \in Nat
      OBVIOUS
    <3> HIDE DEF kept
    <3> QED BY <3>1, <3>2
  <2>5. Trim(u) = IF kept = {} THEN <<>> ELSE SubSeq(u, Min(kept), Max(kept))
    BY Zenon DEF Trim
  <2> HIDE DEF kept
  <2>6. Min(kept) \in kept /\ \A j \in kept : Min(kept) <= j
    BY <2>3, <2>4, MinOf
  <2>7. Max(kept) \in kept /\ \A j \in kept : Max(kept) >= j
    BY <1>1, <2>3, <2>4, MaxOf
  <2>8. Min(kept) = 1 /\ Max(kept) = Len(u)
    <3>1. Min(kept) \in 1..Len(u) /\ Min(kept) <= 1
      BY <2>3, <2>4, <2>6
    <3>2. Max(kept) \in 1..Len(u) /\ Max(kept) >= Len(u)
      BY <2>3, <2>4, <2>7
    <3> QED BY <1>1, <3>1, <3>2
  <2>9. SubSeq(u, 1, Len(u)) = u
    BY SubSeqFull
  <2> QED BY <2>3, <2>5, <2>8, <2>9
<1> QED BY <1>2, <1>3

\* A piece of a text that is a pair, and its pair.
Halves(p) == SplitString(p, "=")
IsPair(p) == Len(Halves(p)) = 2
PairOf(p) == <<Trim(Halves(p)[1]), Trim(Halves(p)[2])>>

\* The pairs of a text are those of its pieces, the empty text included.
LEMMA PairsOfPieces ==
  ASSUME NEW s \in Seq(Tokens), NEW x, x = SplitAll(s, "&")
  PROVE  /\ x \in Seq(Seq(Tokens)) /\ Len(x) >= 1
         /\ DOMAIN PairsOf(s) = {i \in 1..Len(x) : IsPair(x[i])}
         /\ \A i \in DOMAIN PairsOf(s) : PairsOf(s)[i] = PairOf(x[i])
<1>1. x \in Seq(Seq(Tokens)) /\ Len(x) >= 1
  <2>1. x \in Seq(Seq(Tokens \ {"&"})) /\ Len(x) >= 1
    BY AllTyped DEF SomePieces
  <2>2. Seq(Tokens \ {"&"}) \subseteq Seq(Tokens)
    OBVIOUS
  <2> QED BY <2>1, <2>2, SeqMonotonic
<1>2. CASE s # <<>>
  <2>1. x = SplitString(s, "&")
    BY <1>2, Zenon DEF SplitAll
  <2>2. DOMAIN x = 1..Len(x)
    BY <1>1
  <2>3. /\ DOMAIN PairsOf(s) = {i \in DOMAIN x : Len(SplitString(x[i], "=")) = 2}
        /\ \A i \in DOMAIN PairsOf(s) :
             PairsOf(s)[i] = <<Trim(SplitString(x[i], "=")[1]),
                               Trim(SplitString(x[i], "=")[2])>>
    BY <2>1, PairsOfIs, ZenonT(60)
  <2>4. \A i \in DOMAIN PairsOf(s) : PairsOf(s)[i] = PairOf(x[i])
    BY <2>3, Zenon DEF PairOf, Halves
  <2>5. DOMAIN PairsOf(s) = {i \in 1..Len(x) : IsPair(x[i])}
    BY <2>2, <2>3 DEF IsPair, Halves
  <2> QED BY <1>1, <2>4, <2>5
<1>3. CASE s = <<>>
  <2>1. x = <<<<>>>> /\ SplitString(s, "&") = <<>>
    BY <1>3, Zenon DEF SplitAll, SplitString
  <2>2. DOMAIN PairsOf(s) = {}
    <3>1. DOMAIN SplitString(s, "&") = {}
      BY <2>1
    <3> QED BY <3>1, PairsOfIs
  <2>3. ~IsPair(<<>>)
    <3>1. SplitString(<<>>, "=") = <<>>
      BY Zenon DEF SplitString
    <3>2. Len(<<>>) # 2
      OBVIOUS
    <3> QED BY <3>1, <3>2, Zenon DEF IsPair, Halves
  <2>4. \A i \in 1..Len(x) : x[i] = <<>>
    BY <2>1
  <2>5. {i \in 1..Len(x) : IsPair(x[i])} = {}
    BY <2>3, <2>4
  <2> QED BY <1>1, <2>2, <2>5
<1> QED BY <1>2, <1>3

\* What is written of a pair is read as that pair.
LEMMA PairSplits ==
  ASSUME NEW k \in Seq(Plain), NEW v \in Seq(Plain), Trimmed(k), Trimmed(v)
  PROVE  LET p == (k \o <<"=">>) \o v
         IN  /\ p \in Seq(Tokens \ {"&"})
             /\ IsPair(p) /\ PairOf(p) = <<k, v>>
<1> DEFINE p == (k \o <<"=">>) \o v
           T == Tokens \ {"&"}
<1>1. T \ {"="} = Plain /\ "=" \in T /\ Plain \subseteq T
  BY DEF Plain, Tokens
<1> HIDE DEF T
<1>2. k \in Seq(T \ {"="}) /\ v \in Seq(T \ {"="}) /\ v \in Seq(T) /\ k \in Seq(T)
  BY <1>1
<1>3. SplitAll(p, "=") = <<k>> \o SplitAll(v, "=")
  BY <1>1, <1>2, AllJoined
<1>4. SplitAll(v, "=") = <<v>>
  BY <1>2, AllPlain
<1>5. <<k>> \o <<v>> = <<k, v>>
  BY TwoTokens
<1>6. p \in Seq(T) /\ p # <<>>
  <2>1. <<"=">> \in Seq(T) /\ Len(<<"=">>) = 1
    BY <1>1
  <2> DEFINE e == <<"=">>
  <2> HIDE DEF e
  <2>2. k \o e \in Seq(T) /\ Len(k \o e) = Len(k) + 1
    BY <1>2, <2>1, ConcatProperties DEF e
  <2>3. (k \o e) \o v \in Seq(T) /\ Len((k \o e) \o v) = Len(k \o e) + Len(v)
    BY <1>2, <2>2, ConcatProperties
  <2>4. Len(k) \in Nat /\ Len(v) \in Nat
    BY <1>2
  <2>5. Len((k \o e) \o v) # 0
    BY <2>2, <2>3, <2>4
  <2>6. (k \o e) \o v # <<>>
    BY <2>5
  <2> QED BY <2>3, <2>6 DEF e
<1>7. Halves(p) = <<k, v>>
  BY <1>3, <1>4, <1>5, <1>6, Zenon DEF Halves, SplitAll
<1> HIDE DEF p
<1>8. Len(<<k, v>>) = 2 /\ <<k, v>>[1] = k /\ <<k, v>>[2] = v
  OBVIOUS
<1>9. Trim(k) = k /\ Trim(v) = v
  BY TrimKeeps
<1>10. IsPair(p) /\ PairOf(p) = <<k, v>>
  BY <1>7, <1>8, <1>9, Zenon DEF IsPair, PairOf
<1> QED BY <1>6, <1>10 DEF p, T

\* Texts are put together in any order.
LEMMA TextsAssociate ==
  /\ \A x, y, z \in Seq(Tokens) : (x \o y) \o z = x \o (y \o z)
  /\ \A x, y \in Seq(Tokens) : x \o y \in Seq(Tokens)
<1>1. \A x, y, z \in Seq(Tokens) : (x \o y) \o z = x \o (y \o z)
  BY ConcatAssociative
<1>2. \A x, y \in Seq(Tokens) : x \o y \in Seq(Tokens)
  BY ConcatProperties
<1> QED BY <1>1, <1>2

\* The separated pieces of a text that is put together from them.
LEMMA JoinedSplits ==
  ASSUME NEW n \in Nat \ {0}, NEW P \in [1..n -> Seq(Tokens \ {"&"})],
         NEW q \in [1..n -> Seq(Tokens)], q[1] = P[1],
         \A i \in 2..n : q[i] = <<"&">> \o P[i]
  PROVE  SplitAll(FlattenSeq(q), "&") = P
<1> DEFINE W == Seq(Tokens \ {"&"})
           a == <<"&">>
           First(i) == [j \in 1..i |-> P[j]]
<1>1. /\ \A i \in 1..n : P[i] \in W /\ P[i] \in Seq(Tokens) /\ q[i] \in Seq(Tokens)
      /\ a \in Seq(Tokens) /\ "&" \in Tokens
      /\ W \subseteq Seq(Tokens)
  <2>1. "&" \in Tokens
    BY DEF Tokens
  <2> QED BY <2>1
<1> DEFINE S == Seq(Tokens)
<1>2. q \in Seq(S) /\ Len(q) = n
  BY FunctionIsSeq
<1>3. PICK f : /\ FlattenSeq(q) = f[n]
               /\ f[1] = q[1]
               /\ \A i \in 1..n : i # 1 => f[i] = f[i - 1] \o q[i]
  BY <1>2, FlattenUnfolds
<1>4. \A i \in 1..n : First(i) \in Seq(W) /\ Len(First(i)) = i
                      /\ \A j \in 1..i : First(i)[j] = P[j]
  <2>1. ASSUME NEW i \in 1..n
        PROVE  First(i) \in Seq(W) /\ Len(First(i)) = i
               /\ \A j \in 1..i : First(i)[j] = P[j]
    <3>1. First(i) \in [1..i -> W] /\ i \in Nat
      BY <1>1
    <3>2. \A j \in 1..i : First(i)[j] = P[j]
      OBVIOUS
    <3> HIDE DEF W, First
    <3> QED BY <3>1, <3>2, FunctionIsSeq
  <2> QED BY <2>1
<1>5. \A d \in S : SplitAll(d, "&") \in Seq(W)
  BY AllTyped DEF SomePieces
<1>55. \A x, y, z \in Seq(W) : x \o (y \o z) = (x \o y) \o z
  <2> HIDE DEF W
  <2> QED BY ConcatAssociative, SMTT(60)
<1>6. ASSUME NEW i \in 1..n, i + 1 \in 1..n, NEW x \in Seq(W)
      PROVE  First(i) \o (<<P[i + 1]>> \o x) = First(i + 1) \o x
  <2> DEFINE u == First(i)
             v == First(i + 1)
             e == <<P[i + 1]>>
  <2>1. /\ u \in Seq(W) /\ Len(u) = i /\ \A j \in 1..i : u[j] = P[j]
        /\ v \in Seq(W) /\ Len(v) = i + 1 /\ \A j \in 1..(i + 1) : v[j] = P[j]
        /\ e \in Seq(W) /\ Len(e) = 1 /\ e[1] = P[i + 1]
    <3>1. P[i + 1] \in W
      BY <1>1, <1>6
    <3>2. e \in Seq(W) /\ Len(e) = 1 /\ e[1] = P[i + 1]
      <4> HIDE DEF W
      <4> QED BY <3>1, OneToken
    <3> HIDE DEF W, First, e
    <3> QED BY <1>4, <1>6, <3>2
  <2> HIDE DEF W, u, v, e
  <2>2. u \o e = v
    <3>1. /\ u \o e \in Seq(W) /\ Len(u \o e) = Len(u) + Len(e)
          /\ \A j \in 1..(Len(u) + Len(e)) :
               (u \o e)[j] = IF j <= Len(u) THEN u[j] ELSE e[j - Len(u)]
      BY <2>1, ConcatProperties, ZenonT(60)
    <3>2. /\ u \o e \in Seq(W) /\ Len(u \o e) = i + 1
          /\ \A j \in 1..(i + 1) : (u \o e)[j] = IF j <= i THEN u[j] ELSE e[j - i]
      BY <2>1, <3>1
    <3>3. ASSUME NEW j \in 1..(i + 1) PROVE (u \o e)[j] = v[j]
      <4>1. j <= i \/ (j = i + 1 /\ j - i = 1 /\ ~(j <= i))
        OBVIOUS
      <4>2. j <= i => j \in 1..i
        OBVIOUS
      <4> QED BY <2>1, <3>2, <4>1, <4>2
    <3> DEFINE w == u \o e
    <3>4. w \in Seq(W) /\ Len(w) = Len(v) /\ \A j \in 1..Len(w) : w[j] = v[j]
      BY <2>1, <3>2, <3>3
    <3> HIDE DEF w
    <3>5. w = v
      BY <2>1, <3>4, SeqEqual
    <3> QED BY <3>5 DEF w
  <2>3. u \o (e \o x) = (u \o e) \o x
    BY <1>6, <1>55, <2>1, ZenonT(60)
  <2> QED BY <2>2, <2>3 DEF u, v, e
<1> HIDE DEF First
<1> DEFINE Upto(i) ==
             /\ f[i] \in S
             /\ \A d \in S : SplitAll((f[i] \o a) \o d, "&")
                               = First(i) \o SplitAll(d, "&")
<1>7. ASSUME NEW i \in 1..n, NEW d \in S
      PROVE  SplitAll((P[i] \o a) \o d, "&") = <<P[i]>> \o SplitAll(d, "&")
  <2>1. \A u \in Seq(Tokens \ {"&"}) : \A t \in Seq(Tokens) :
          SplitAll((u \o <<"&">>) \o t, "&") = <<u>> \o SplitAll(t, "&")
    BY <1>1, AllJoined
  <2>2. P[i] \in Seq(Tokens \ {"&"})
    BY <1>1
  <2> QED BY <2>1, <2>2, Zenon
<1>8. \A x, y, z \in S : (x \o y) \o z = x \o (y \o z)
  BY TextsAssociate
<1>9. \A x, y \in S : x \o y \in S
  BY ConcatProperties
<1>10. 1 \in 1..n /\ n \in 1..n
  OBVIOUS
<1>11. First(1) = <<P[1]>>
  BY DEF First
<1>12. Upto(1)
  <2>1. f[1] = P[1] /\ f[1] \in S
    BY <1>1, <1>3, <1>10
  <2>2. \A d \in S : SplitAll((P[1] \o a) \o d, "&") = <<P[1]>> \o SplitAll(d, "&")
    BY <1>7, <1>10, Zenon
  <2> QED BY <1>11, <2>1, <2>2
<1>13. ASSUME NEW i \in 1..n, i + 1 \in 1..n, Upto(i) PROVE Upto(i + 1)
  <2>1. f[i + 1] = f[i] \o (a \o P[i + 1])
    <3>1. i + 1 \in 2..n /\ i + 1 # 1 /\ (i + 1) - 1 = i
      BY <1>13
    <3>2. f[i + 1] = f[(i + 1) - 1] \o q[i + 1] /\ q[i + 1] = a \o P[i + 1]
      BY <1>3, <1>13, <3>1, Zenon
    <3> QED BY <3>1, <3>2
  <2>2. /\ f[i] \in S /\ a \in S /\ P[i + 1] \in S /\ a \o P[i + 1] \in S
        /\ f[i + 1] \in S
    BY <1>1, <1>9, <1>13, <2>1
  <2>3. ASSUME NEW d \in S
        PROVE  SplitAll((f[i + 1] \o a) \o d, "&") = First(i + 1) \o SplitAll(d, "&")
    <3> DEFINE r == (P[i + 1] \o a) \o d
               g == f[i]
               p == P[i + 1]
               v == a \o p
               w == a \o d
    <3>1. r \in S /\ w \in S /\ v \in S /\ a \in S /\ d \in S /\ g \in S /\ p \in S
      BY <1>9, <2>2
    <3>2. (f[i + 1] \o a) \o d = (f[i] \o a) \o r
      <4>1. f[i + 1] = g \o v
        BY <2>1
      <4>2. ((g \o v) \o a) \o d = (g \o v) \o w
        <5>1. g \o v \in S
          BY <2>1, <2>2
        <5> HIDE DEF v, g, a
        <5> QED BY <1>8, <3>1, <5>1, ZenonT(60) DEF w
      <4>3. v \o w = a \o r
        <5>1. r = p \o w
          BY <1>8, <2>2, ZenonT(60)
        <5>2. v \o w = a \o (p \o w)
          <6> HIDE DEF p, a, S, w
          <6> QED BY <1>8, <3>1, ZenonT(60) DEF v
        <5> QED BY <5>1, <5>2, Zenon
      <4> HIDE DEF v, g, a, r, w, S
      <4>4. (g \o v) \o w = g \o (v \o w)
        BY <1>8, <3>1, ZenonT(60)
      <4>5. (g \o a) \o r = g \o (a \o r)
        BY <1>8, <3>1, ZenonT(60)
      <4>6. (f[i + 1] \o a) \o d = (g \o a) \o r
        BY <4>1, <4>2, <4>3, <4>4, <4>5, Zenon
      <4> QED BY <4>6, Zenon DEF g
    <3> HIDE DEF S, a
    <3>3. SplitAll((f[i] \o a) \o r, "&") = First(i) \o SplitAll(r, "&")
      BY <1>13, <3>1
    <3>4. SplitAll(r, "&") = <<P[i + 1]>> \o SplitAll(d, "&")
      BY <1>7, <1>13
    <3>5. First(i) \o (<<P[i + 1]>> \o SplitAll(d, "&"))
            = First(i + 1) \o SplitAll(d, "&")
      BY <1>5, <1>6, <1>13
    <3> QED BY <3>2, <3>3, <3>4, <3>5
  <2> QED BY <2>2, <2>3
<1> DEFINE N == {k \in Nat : k + 1 \in 1..n => Upto(k + 1)}
<1> HIDE DEF Upto
<1>14. \A k \in Nat : k \in N
  <2>1. 0 \in N
    BY <1>12
  <2>2. ASSUME NEW k \in Nat, k \in N PROVE k + 1 \in N
    <3>1. SUFFICES ASSUME (k + 1) + 1 \in 1..n PROVE Upto((k + 1) + 1)
      OBVIOUS
    <3>2. k + 1 \in 1..n
      BY <3>1
    <3> QED BY <1>13, <2>2, <3>1, <3>2
  <2> HIDE DEF N
  <2> QED BY <2>1, <2>2, UpFromZero
<1>15. CASE n = 1
  <2>1. FlattenSeq(q) = P[1]
    BY <1>3, <1>15
  <2>2. SplitAll(P[1], "&") = <<P[1]>>
    BY <1>1, <1>10, AllPlain
  <2>3. P = <<P[1]>>
    BY <1>15
  <2> QED BY <2>1, <2>2, <2>3
<1>16. CASE n # 1
  <2>1. PICK k \in Nat : k + 1 = n - 1
    <3>1. n - 2 \in Nat /\ (n - 2) + 1 = n - 1
      BY <1>16
    <3> QED BY <3>1
  <2>2. n - 1 \in 1..n /\ (n - 1) + 1 = n /\ n \in 2..n
    BY <1>16
  <2>3. Upto(n - 1)
    <3>1. k \in N
      BY <1>14
    <3> QED BY <2>1, <2>2, <3>1
  <2>4. f[n] = (f[n - 1] \o a) \o P[n]
    <3>1. f[n] = f[n - 1] \o (a \o P[n])
      BY <1>3, <1>10, <1>16, <2>2, Zenon
    <3>2. f[n - 1] \in S /\ a \in S /\ P[n] \in S
      BY <1>1, <1>10, <2>3 DEF Upto
    <3> QED BY <1>8, <3>1, <3>2
  <2>5. SplitAll((f[n - 1] \o a) \o P[n], "&") = First(n - 1) \o SplitAll(P[n], "&")
    BY <1>1, <1>10, <2>3 DEF Upto
  <2>6. SplitAll(P[n], "&") = <<P[n]>>
    BY <1>1, <1>10, AllPlain
  <2>7. First(n - 1) \o <<P[n]>> = First(n)
    <3>1. First(n - 1) \o (<<P[n]>> \o <<>>) = First(n) \o <<>>
      <4>1. <<>> \in Seq(W)
        OBVIOUS
      <4> HIDE DEF W
      <4>2. n - 1 \in 1..n /\ (n - 1) + 1 \in 1..n
        BY <2>2
      <4>3. First(n - 1) \o (<<P[(n - 1) + 1]>> \o <<>>) = First((n - 1) + 1) \o <<>>
        BY <1>6, <4>1, <4>2, Zenon
      <4> QED BY <2>2, <4>3
    <3>2. <<P[n]>> \o <<>> = <<P[n]>>
      <4>1. <<P[n]>> \in Seq(W)
        BY <1>1, <1>10
      <4> HIDE DEF W
      <4> QED BY <4>1, ConcatEmptySeq
    <3>3. First(n) \o <<>> = First(n)
      <4>1. First(n) \in Seq(W)
        BY <1>4, <1>10
      <4> HIDE DEF W
      <4> QED BY <4>1, ConcatEmptySeq
    <3> QED BY <3>1, <3>2, <3>3
  <2>8. First(n) = P
    BY DEF First
  <2> QED BY <1>3, <2>4, <2>5, <2>6, <2>7, <2>8
<1> QED BY <1>15, <1>16

\* The text of the pairs of m that have the keys r, in the order of r.
PairText(r, m, i) ==
  (IF i = 1 THEN <<>> ELSE <<"&">>) \o r[i] \o <<"=">> \o m[r[i]]
TextOf(r, m) == FlattenSeq([i \in DOMAIN r |-> PairText(r, m, i)])

\* strPairAppendToMap returns a function, of trimmed keys and values.
LEMMA MapTrimmed ==
  ASSUME NEW s \in Seq(Tokens), NEW m, m = StrPairAppendToMap(s)
  PROVE  /\ m = [k \in DOMAIN m |-> m[k]]
         /\ \A k \in DOMAIN m : Trimmed(k) /\ Trimmed(m[k])
<1>1. m = [k \in DOMAIN m |-> m[k]]
  <2> DEFINE K == {PairsOf(s)[i][1] : i \in DOMAIN PairsOf(s)}
             V(k) == PairsOf(s)[Min(PositionsOf(k, PairsOf(s)))][2]
  <2>1. m = [k \in K |-> V(k)]
    BY Zenon DEF StrPairAppendToMap
  <2> HIDE DEF K, V
  <2> QED BY <2>1
<1>2. ASSUME NEW k \in DOMAIN m PROVE Trimmed(k) /\ Trimmed(m[k])
  <2>1. PICK i \in DOMAIN PairsOf(s) : PairsOf(s)[i] = <<k, m[k]>>
    BY MapIs
  <2> DEFINE x == SplitAll(s, "&")
             h == Halves(x[i])
  <2>2. /\ x \in Seq(Seq(Tokens)) /\ i \in 1..Len(x) /\ IsPair(x[i])
        /\ PairsOf(s)[i] = PairOf(x[i])
    <3>1. x = SplitAll(s, "&")
      OBVIOUS
    <3> HIDE DEF x
    <3> QED BY <3>1, PairsOfPieces
  <2>3. h \in Seq(Seq(Tokens)) /\ Len(h) = 2
    <3>1. x[i] \in Seq(Tokens)
      <4> HIDE DEF x
      <4> QED BY <2>2
    <3>2. h \in Seq(Seq(Tokens \ {"="}))
      <4> HIDE DEF x
      <4> QED BY <3>1, AllTyped DEF Halves
    <3>3. Seq(Tokens \ {"="}) \subseteq Seq(Tokens)
      OBVIOUS
    <3> HIDE DEF x, h
    <3>4. h \in Seq(Seq(Tokens))
      BY <3>2, <3>3, SeqMonotonic
    <3>5. Len(h) = 2
      BY <2>2, Zenon DEF IsPair, h
    <3> QED BY <3>4, <3>5
  <2>4. h[1] \in Seq(Tokens) /\ h[2] \in Seq(Tokens)
    <3> DEFINE V == Seq(Tokens)
    <3>1. h \in Seq(V) /\ Len(h) = 2
      BY <2>3
    <3> HIDE DEF h, V
    <3>2. 1 \in 1..Len(h) /\ 2 \in 1..Len(h)
      BY <3>1
    <3>3. h[1] \in V /\ h[2] \in V
      BY <3>1, <3>2, ElementOfSeq
    <3> QED BY <3>3 DEF V
  <2>5. Trimmed(Trim(h[1])) /\ Trimmed(Trim(h[2]))
    BY <2>4, TrimTrims
  <2>6. PairOf(x[i]) = <<Trim(h[1]), Trim(h[2])>>
    BY Zenon DEF PairOf
  <2> DEFINE a == Trim(h[1])
             b == Trim(h[2])
  <2> HIDE DEF h, x, a, b
  <2>7. <<k, m[k]>> = <<a, b>>
    BY <2>1, <2>2, <2>6 DEF a, b
  <2>8. k = a /\ m[k] = b
    BY <2>7
  <2> QED BY <2>5, <2>8 DEF a, b
<1> QED BY <1>1, <1>2

\* r lists the keys, each once; m gives them values that can be written.
Lists(r, n, keys) ==
  /\ r \in [1..n -> keys]
  /\ \A k \in keys : \E i \in 1..n : r[i] = k
  /\ \A i, j \in 1..n : r[i] = r[j] => i = j
Clean(m, keys) ==
  \A k \in keys : /\ k \in Seq(Plain) /\ m[k] \in Seq(Plain)
                  /\ Trimmed(k) /\ Trimmed(m[k])

\* The text of a pair.
TextOfPair(r, m, i) == (r[i] \o <<"=">>) \o m[r[i]]

\* It is read as that pair.
LEMMA TextOfPairSplits ==
  ASSUME NEW n \in Nat, NEW keys, NEW r, NEW m, Lists(r, n, keys), Clean(m, keys),
         NEW i \in 1..n
  PROVE  /\ TextOfPair(r, m, i) \in Seq(Tokens \ {"&"})
         /\ IsPair(TextOfPair(r, m, i))
         /\ PairOf(TextOfPair(r, m, i)) = <<r[i], m[r[i]]>>
<1> DEFINE k == r[i]
           v == m[r[i]]
<1>1. k \in Seq(Plain) /\ v \in Seq(Plain) /\ Trimmed(k) /\ Trimmed(v)
  BY DEF Lists, Clean
<1>2. TextOfPair(r, m, i) = (k \o <<"=">>) \o v
  BY Zenon DEF TextOfPair
<1> HIDE DEF k, v
<1>3. /\ (k \o <<"=">>) \o v \in Seq(Tokens \ {"&"})
      /\ IsPair((k \o <<"=">>) \o v)
      /\ PairOf((k \o <<"=">>) \o v) = <<k, v>>
  BY <1>1, PairSplits
<1> QED BY <1>2, <1>3, Zenon DEF k, v

\* The pieces of the text that InitCCmd writes are the texts of its pairs.
LEMMA TextSplits ==
  ASSUME NEW n \in Nat, NEW keys, NEW r, NEW m, Lists(r, n, keys), Clean(m, keys)
  PROVE  /\ TextOf(r, m) \in Seq(Tokens)
         /\ n = 0 => TextOf(r, m) = <<>>
         /\ n # 0 => SplitAll(TextOf(r, m), "&") = [i \in 1..n |-> TextOfPair(r, m, i)]
<1> DEFINE s == TextOf(r, m)
           q == [i \in 1..n |-> PairText(r, m, i)]
           P == [i \in 1..n |-> TextOfPair(r, m, i)]
           S == Seq(Tokens)
           W == Seq(Tokens \ {"&"})
           a == <<"&">>
           e == <<"=">>
<1>1. s = FlattenSeq(q)
  <2>1. DOMAIN r = 1..n
    BY DEF Lists
  <2> QED BY <2>1, Zenon DEF TextOf
<1>2. a \in S /\ e \in S /\ Seq(Plain) \subseteq S
  <2>1. "=" \in Tokens /\ "&" \in Tokens
    BY DEF Tokens
  <2>2. Plain \subseteq Tokens
    BY DEF Plain
  <2> QED BY <2>1, <2>2
<1>3. \A i \in 1..n : /\ r[i] \in keys
                      /\ r[i] \in Seq(Plain) /\ m[r[i]] \in Seq(Plain)
                      /\ Trimmed(r[i]) /\ Trimmed(m[r[i]])
  BY DEF Lists, Clean
<1>4. \A i \in 1..n : r[i] \in S /\ m[r[i]] \in S
  BY <1>2, <1>3
<1>5. \A i \in 1..n : P[i] \in W
  <2>1. \A i \in 1..n : TextOfPair(r, m, i) \in W
    BY TextOfPairSplits
  <2> HIDE DEF W
  <2> QED BY <2>1
<1>6. ASSUME NEW i \in 1..n
      PROVE  q[i] = IF i = 1 THEN P[i] ELSE a \o P[i]
  <2>1. q[i] = (((IF i = 1 THEN <<>> ELSE a) \o r[i]) \o e) \o m[r[i]]
    BY Zenon DEF PairText
  <2>2. P[i] = (r[i] \o e) \o m[r[i]]
    BY Zenon DEF TextOfPair
  <2> DEFINE u == r[i]
             v == m[r[i]]
  <2>3. u \in S /\ v \in S /\ a \in S /\ e \in S /\ u \o e \in S /\ a \o u \in S
    <3>1. u \in S /\ v \in S
      BY <1>4
    <3> QED BY <1>2, <3>1, TextsAssociate, Zenon
  <2>4. <<>> \o u = u
    <3> HIDE DEF u
    <3> QED BY <2>3, ConcatEmptySeq
  <2>5. ((a \o u) \o e) \o v = a \o ((u \o e) \o v)
    <3>0. \A x, y, z \in S : (x \o y) \o z = x \o (y \o z)
      BY TextsAssociate
    <3> HIDE DEF a, e, u, v, S
    <3>1. (a \o u) \o e = a \o (u \o e)
      BY <2>3, <3>0, ZenonT(60)
    <3>2. (a \o (u \o e)) \o v = a \o ((u \o e) \o v)
      BY <2>3, <3>0, ZenonT(60)
    <3> QED BY <3>1, <3>2, Zenon
  <2> HIDE DEF q, P, a, e
  <2>6. CASE i = 1
    BY <2>1, <2>2, <2>4, <2>6
  <2>7. CASE i # 1
    BY <2>1, <2>2, <2>5, <2>7
  <2> QED BY <2>6, <2>7
<1>7. ASSUME n = 0 PROVE s \in S /\ s = <<>>
  <2>1. FlattenSeq(q) = q /\ q = <<>>
    <3>1. q = <<>>
      BY <1>7
    <3> HIDE DEF q
    <3>2. Len(q) = 0
      BY <3>1
    <3> QED BY <3>1, <3>2, Zenon DEF FlattenSeq
  <2>2. s = <<>>
    BY <1>1, <2>1
  <2>3. <<>> \in S
    OBVIOUS
  <2> QED BY <1>7, <2>2, <2>3
<1>8. ASSUME n # 0 PROVE s \in S /\ SplitAll(s, "&") = P
  <2>1. q \in [1..n -> S] /\ P \in [1..n -> W]
    <3>1. W \subseteq S
      OBVIOUS
    <3>2. \A i \in 1..n : P[i] \in W /\ P[i] \in S
      BY <1>5, <3>1
    <3>3. \A i \in 1..n : a \o P[i] \in S
      BY <1>2, <3>2, TextsAssociate, Zenon
    <3>4. \A i \in 1..n : q[i] \in S
      BY <1>6, <3>2, <3>3
    <3> HIDE DEF S, W
    <3>5. q = [i \in 1..n |-> q[i]] /\ P = [i \in 1..n |-> P[i]]
      OBVIOUS
    <3> HIDE DEF q, P
    <3> QED BY <3>2, <3>4, <3>5
  <2>2. q[1] = P[1] /\ \A i \in 2..n : q[i] = a \o P[i]
    <3>1. 1 \in 1..n /\ \A i \in 2..n : i \in 1..n /\ i # 1
      BY <1>8
    <3> HIDE DEF q, P, a
    <3> QED BY <1>6, <3>1
  <2>3. SplitAll(s, "&") = P
    <3>1. n \in Nat \ {0}
      BY <1>8
    <3>2. P \in [1..n -> Seq(Tokens \ {"&"})] /\ q \in [1..n -> Seq(Tokens)]
      BY <2>1, Zenon
    <3>3. q[1] = P[1] /\ \A i \in 2..n : q[i] = <<"&">> \o P[i]
      BY <2>2, Zenon
    <3> HIDE DEF q, P
    <3>4. SplitAll(FlattenSeq(q), "&") = P
      BY <3>1, <3>2, <3>3, JoinedSplits, Zenon
    <3> QED BY <1>1, <3>4, Zenon
  <2>4. s \in S
    <3>1. q \in Seq(S)
      <4> HIDE DEF q, S
      <4> QED BY <2>1, FunctionIsSeq
    <3> HIDE DEF q
    <3> QED BY <1>1, <3>1, FlattenTyped
  <2> QED BY <2>3, <2>4, Zenon
<1>9. s \in S /\ (n = 0 => s = <<>>) /\ (n # 0 => SplitAll(s, "&") = P)
  <2> HIDE DEF s, P
  <2> QED BY <1>7, <1>8, Zenon
<1>10. \A i \in 1..n : P[i] = TextOfPair(r, m, i)
  BY Zenon
<1>11. P = [i \in 1..n |-> TextOfPair(r, m, i)]
  OBVIOUS
<1> HIDE DEF P
<1> QED BY <1>5, <1>9, <1>10, <1>11, Zenon DEF s

\* The map that was written is the map that is read.
LEMMA MapOfText ==
  ASSUME NEW n \in Nat, NEW keys, NEW r, NEW m, Lists(r, n, keys), Clean(m, keys)
  PROVE  /\ TextOf(r, m) \in Seq(Tokens)
         /\ DOMAIN StrPairAppendToMap(TextOf(r, m)) = keys
         /\ \A k \in keys : StrPairAppendToMap(TextOf(r, m))[k] = m[k]
<1> DEFINE s == TextOf(r, m)
           M == StrPairAppendToMap(s)
           P == [i \in 1..n |-> TextOfPair(r, m, i)]
           S == Seq(Tokens)
           W == Seq(Tokens \ {"&"})
<1>1. /\ s \in S
      /\ n = 0 => s = <<>>
      /\ n # 0 => SplitAll(s, "&") = P
      /\ \A i \in 1..n : /\ TextOfPair(r, m, i) \in W
                         /\ IsPair(TextOfPair(r, m, i))
                         /\ PairOf(TextOfPair(r, m, i)) = <<r[i], m[r[i]]>>
  <2>1. s \in S
    BY TextSplits
  <2>2. n = 0 => s = <<>>
    BY TextSplits
  <2>3. n # 0 => SplitAll(s, "&") = P
    BY TextSplits
  <2>4. \A i \in 1..n : /\ TextOfPair(r, m, i) \in W
                        /\ IsPair(TextOfPair(r, m, i))
                        /\ PairOf(TextOfPair(r, m, i)) = <<r[i], m[r[i]]>>
    BY TextOfPairSplits
  <2> QED BY <2>1, <2>2, <2>3, <2>4, Zenon
<1>2. \A i \in 1..n : P[i] = TextOfPair(r, m, i)
  BY Zenon
<1>5. \A i \in 1..n : P[i] \in W /\ IsPair(P[i]) /\ PairOf(P[i]) = <<r[i], m[r[i]]>>
  <2> HIDE DEF P, W
  <2> QED BY <1>1, <1>2
<1>3. \A i \in 1..n : r[i] \in keys
  BY DEF Lists
<1>7. CASE n = 0
  <2>2. s = <<>>
    BY <1>1, <1>7
  <2>3. DOMAIN PairsOf(<<>>) = {}
    <3>1. SplitString(<<>>, "&") = <<>>
      BY Zenon DEF SplitString
    <3>2. DOMAIN SplitString(<<>>, "&") = {}
      BY <3>1
    <3> QED BY <3>2, PairsOfIs
  <2>4. DOMAIN M = {}
    <3>1. {PairsOf(<<>>)[i][1] : i \in DOMAIN PairsOf(<<>>)} = {}
      BY <2>3
    <3> DEFINE V(k) == PairsOf(<<>>)[Min(PositionsOf(k, PairsOf(<<>>)))][2]
    <3>2. StrPairAppendToMap(<<>>) = [k \in {} |-> V(k)]
      BY <3>1, Zenon DEF StrPairAppendToMap
    <3>3. DOMAIN [k \in {} |-> V(k)] = {}
      <4> HIDE DEF V
      <4> QED OBVIOUS
    <3> QED BY <2>2, <3>2, <3>3, Zenon
  <2>5. keys = {}
    <3>1. 1..n = {}
      BY <1>7
    <3> QED BY <3>1 DEF Lists
  <2>6. <<>> \in S
    OBVIOUS
  <2>7. s \in S
    BY <2>2, <2>6
  <2> HIDE DEF M, s
  <2>8. s \in S /\ DOMAIN M = keys /\ \A k \in keys : M[k] = m[k]
    BY <2>4, <2>5, <2>7
  <2> QED BY <2>8 DEF M, s
<1>8. CASE n # 0
  <2>3. SplitAll(s, "&") = P /\ P \in [1..n -> W]
    <3> HIDE DEF s, W
    <3> QED BY <1>1, <1>5, <1>8
  <2>4. s \in S
    BY <1>1
  <2>5. Len(P) = n
    <3> HIDE DEF P, W
    <3> QED BY <2>3, FunctionIsSeq
  <2> HIDE DEF s, P
  <2>6. /\ DOMAIN PairsOf(s) = 1..n
        /\ \A i \in 1..n : PairsOf(s)[i] = <<r[i], m[r[i]]>>
    <3>1. /\ DOMAIN PairsOf(s) = {i \in 1..Len(P) : IsPair(P[i])}
          /\ \A i \in DOMAIN PairsOf(s) : PairsOf(s)[i] = PairOf(P[i])
      BY <2>3, <2>4, PairsOfPieces
    <3>2. DOMAIN PairsOf(s) = 1..n
      BY <1>5, <2>5, <3>1
    <3> QED BY <1>5, <3>1, <3>2
  <2>7. /\ \A i \in DOMAIN PairsOf(s) : PairsOf(s)[i][1] \in DOMAIN M
        /\ \A k \in DOMAIN M :
             \E i \in DOMAIN PairsOf(s) : PairsOf(s)[i] = <<k, M[k]>>
    BY <2>4, MapIs
  <2> HIDE DEF M
  <2>8. ASSUME NEW k \in DOMAIN M
        PROVE  k \in keys /\ M[k] = m[k]
    <3>1. PICK i \in 1..n : <<r[i], m[r[i]]>> = <<k, M[k]>>
      BY <2>6, <2>7
    <3>2. r[i] = k /\ m[r[i]] = M[k]
      BY <3>1
    <3> QED BY <1>3, <3>2
  <2>9. ASSUME NEW k \in keys PROVE k \in DOMAIN M
    <3>1. PICK i \in 1..n : r[i] = k
      BY DEF Lists
    <3>2. PairsOf(s)[i][1] = r[i]
      BY <2>6
    <3> QED BY <2>6, <2>7, <3>1, <3>2
  <2>10. DOMAIN M = keys /\ \A k \in keys : M[k] = m[k]
    BY <2>8, <2>9
  <2> QED BY <2>4, <2>10 DEF M, s
<1> QED BY <1>7, <1>8

\* The keys of a text that are not taken for fields.
DataKeysOf(s) == {k \in DOMAIN StrPairAppendToMap(s) :
                    \A f \in Range(Header) : k # <<f>>}

\* The data that InitCCmd makes of a text holds its pairs, but for the
\* fields, in the order of their keys.
LEMMA DataIs ==
  ASSUME NEW s \in Seq(Tokens)
  PROVE  InitCCmd(s).data = TextOf(InOrder(DataKeysOf(s)), StrPairAppendToMap(s))
<1> DEFINE m == StrPairAppendToMap(s)
           rest == RestOf(s)
<1>1. DOMAIN m \ {<<f>> : f \in FoundIn(s)} = DataKeysOf(s)
  <2>1. FoundIn(s) = {f \in Range(Header) : <<f>> \in DOMAIN m}
    BY DEF FoundIn
  <2> HIDE DEF m
  <2>2. DataKeysOf(s) = {k \in DOMAIN m : \A f \in Range(Header) : k # <<f>>}
    BY DEF DataKeysOf, m
  <2>3. \A k \in DOMAIN m : k \in {<<f>> : f \in FoundIn(s)}
                             <=> \E f \in Range(Header) : k = <<f>>
    BY <2>1
  <2> QED BY <2>2, <2>3
<1>2. rest = InOrder(DataKeysOf(s))
  BY <1>1, Zenon DEF RestOf
<1>3. InitCCmd(s).data = FlattenSeq([i \in DOMAIN rest |-> DataPair(s, i)])
  BY InitIs, Zenon
<1>4. \A i \in DOMAIN rest : DataPair(s, i) = PairText(rest, m, i)
  BY Zenon DEF DataPair, PairText
<1> HIDE DEF rest, m
<1>5. [i \in DOMAIN rest |-> DataPair(s, i)] = [i \in DOMAIN rest |-> PairText(rest, m, i)]
  BY <1>4, Zenon
<1> QED BY <1>2, <1>3, <1>5, Zenon DEF TextOf, m

\* The keys of the data, in their order, can be written with their values.
LEMMA KeysListed ==
  ASSUME NEW s \in Seq(Tokens), NEW keys, keys = DataKeysOf(s)
  PROVE  /\ Cardinality(keys) \in Nat
         /\ Lists(InOrder(keys), Cardinality(keys), keys)
         /\ Clean(StrPairAppendToMap(s), keys)
<1> DEFINE m == StrPairAppendToMap(s)
           n == Cardinality(keys)
           r == InOrder(keys)
<1>1. /\ DOMAIN m \subseteq Seq(Plain) /\ IsFiniteSet(DOMAIN m)
      /\ \A k \in DOMAIN m : m[k] \in Seq(Plain)
      /\ \A k \in DOMAIN m : Trimmed(k) /\ Trimmed(m[k])
  BY MapIs, MapTrimmed
<1>2. keys \subseteq DOMAIN m
  BY DEF DataKeysOf
<1> HIDE DEF m
<1>3. keys \subseteq Seq(Plain) /\ IsFiniteSet(keys)
  <2>1. keys \in SUBSET (DOMAIN m)
    BY <1>2
  <2> QED BY <1>1, <2>1, FS_Subset
<1>4. /\ n \in Nat /\ r \in [1..n -> keys]
      /\ \A k \in keys : \E i \in 1..n : r[i] = k
      /\ \A i, j \in 1..n : r[i] = r[j] => i = j
  BY <1>3, InOrderIs
<1> HIDE DEF n, r
<1>5. Lists(r, n, keys)
  BY <1>4, Zenon DEF Lists
<1>6. Clean(m, keys)
  BY <1>1, <1>2, <1>3 DEF Clean
<1> QED BY <1>4, <1>5, <1>6 DEF m, n, r

\* InitCCmd: a service that reads the data it is given finds the pairs of
\* the text it came in, each key with the value that text had.
THEOREM PairsSurvive ==
  ASSUME NEW s \in Seq(Tokens)
  PROVE  /\ DOMAIN StrPairAppendToMap(InitCCmd(s).data) = DataKeysOf(s)
         /\ \A k \in DataKeysOf(s) :
              StrPairAppendToMap(InitCCmd(s).data)[k] = StrPairAppendToMap(s)[k]
<1> DEFINE m == StrPairAppendToMap(s)
           keys == DataKeysOf(s)
           n == Cardinality(keys)
           r == InOrder(keys)
<1>1. n \in Nat /\ Lists(r, n, keys) /\ Clean(m, keys)
  BY KeysListed
<1>2. InitCCmd(s).data = TextOf(r, m)
  BY DataIs, Zenon DEF r, m, keys
<1> HIDE DEF m, keys, n, r
<1>3. /\ DOMAIN StrPairAppendToMap(TextOf(r, m)) = keys
      /\ \A k \in keys : StrPairAppendToMap(TextOf(r, m))[k] = m[k]
  BY <1>1, MapOfText
<1> QED BY <1>2, <1>3 DEF m, keys

\* Behind the fields that ToString writes, the data keeps its pairs.
LEMMA HopKeeps ==
  ASSUME NEW c, Writable(c), NEW d \in Seq(Tokens), NEW s, s = HeadText(c) \o d
  PROVE  /\ DataKeysOf(s) = DataKeysOf(d)
         /\ \A k \in DataKeysOf(s) : StrPairAppendToMap(s)[k] = StrPairAppendToMap(d)[k]
<1> DEFINE x == SplitAll(d, "&")
           z == SplitAll(s, "&")
           F == Fields(c, 9)
           ms == StrPairAppendToMap(s)
           md == StrPairAppendToMap(d)
           ps == PairsOf(s)
           pd == PairsOf(d)
<1>1. s \in Seq(Tokens)
  BY HeadPairs, 1 \in 1..9
<1>2. z = F \o x
  BY HeadTextSplits
<1>3. /\ x \in Seq(Seq(Tokens)) /\ Len(x) \in Nat
      /\ DOMAIN pd = {i \in 1..Len(x) : IsPair(x[i])}
      /\ \A i \in DOMAIN pd : pd[i] = PairOf(x[i])
  <2>1. /\ x \in Seq(Seq(Tokens))
        /\ DOMAIN pd = {i \in 1..Len(x) : IsPair(x[i])}
        /\ \A i \in DOMAIN pd : pd[i] = PairOf(x[i])
    BY PairsOfPieces
  <2> HIDE DEF x
  <2> QED BY <2>1
<1>4. /\ z \in Seq(Seq(Tokens)) /\ Len(z) \in Nat
      /\ DOMAIN ps = {i \in 1..Len(z) : IsPair(z[i])}
      /\ \A i \in DOMAIN ps : ps[i] = PairOf(z[i])
  <2>1. /\ z \in Seq(Seq(Tokens))
        /\ DOMAIN ps = {i \in 1..Len(z) : IsPair(z[i])}
        /\ \A i \in DOMAIN ps : ps[i] = PairOf(z[i])
    BY <1>1, PairsOfPieces
  <2> HIDE DEF z
  <2> QED BY <2>1
<1>5. F \in Seq(Seq(Tokens)) /\ Len(F) = 9
  <2> DEFINE W == Seq(Tokens)
             P(j) == <<Header[j], "=", c.head[Header[j]]>>
  <2>1. \A j \in 1..9 : P(j) \in W
    <3>1. \A j \in 1..9 : P(j) \in Seq(Tokens \ {"&"})
      BY FieldTyped
    <3>2. Seq(Tokens \ {"&"}) \subseteq Seq(Tokens)
      OBVIOUS
    <3> HIDE DEF P
    <3> QED BY <3>1, <3>2, Zenon
  <2>2. F = [j \in 1..9 |-> P(j)]
    BY Zenon DEF Fields
  <2> DEFINE n == 9
  <2> HIDE DEF P, W, F
  <2>3. F \in [1..n -> W] /\ n \in Nat
    BY <2>1, <2>2
  <2> HIDE DEF n
  <2>4. F \in Seq(W) /\ Len(F) = n
    BY <2>3, FunctionIsSeq
  <2> QED BY <2>4 DEF W, n
<1>6. \A i \in 1..9 : i \in DOMAIN ps /\ ps[i][1] = <<Header[i]>>
  <2>1. ASSUME NEW i \in 1..9 PROVE i \in DOMAIN ps /\ ps[i][1] = <<Header[i]>>
    <3>1. i \in DOMAIN ps /\ ps[i] = <<<<Header[i]>>, <<c.head[Header[i]]>>>>
      BY HeadPairs
    <3> HIDE DEF ps
    <3> QED BY <3>1
  <2> QED BY <2>1
<1>7. /\ Len(z) = 9 + Len(x)
      /\ \A i \in 1..Len(x) : z[9 + i] = x[i]
  <2> DEFINE W == Seq(Tokens)
  <2>1. F \in Seq(W) /\ x \in Seq(W)
    BY <1>3, <1>5
  <2> HIDE DEF W, F, x, z
  <2>2. /\ Len(z) = Len(F) + Len(x)
        /\ \A j \in 1..(Len(F) + Len(x)) : z[j] = IF j <= Len(F) THEN F[j]
                                                   ELSE x[j - Len(F)]
    BY <1>2, <2>1, ConcatProperties
  <2>3. /\ Len(z) = 9 + Len(x)
        /\ \A j \in 1..(9 + Len(x)) : z[j] = IF j <= 9 THEN F[j] ELSE x[j - 9]
    BY <1>5, <2>2
  <2>4. ASSUME NEW i \in 1..Len(x) PROVE z[9 + i] = x[i]
    <3>1. 9 + i \in 1..(9 + Len(x)) /\ ~(9 + i <= 9) /\ (9 + i) - 9 = i
      BY <1>3
    <3>2. z[9 + i] = x[(9 + i) - 9]
      BY <2>3, <3>1, Zenon
    <3> QED BY <3>1, <3>2
  <2> QED BY <2>3, <2>4
<1> HIDE DEF x, z, F, ps, pd
<1>8. ASSUME NEW i \in 1..Len(x)
      PROVE  /\ i \in DOMAIN pd <=> 9 + i \in DOMAIN ps
             /\ i \in DOMAIN pd => ps[9 + i] = pd[i]
  <2>1. 9 + i \in 1..Len(z) /\ z[9 + i] = x[i]
    BY <1>3, <1>7
  <2> QED BY <1>3, <1>4, <2>1
<1>9. /\ \A i \in DOMAIN ps : ps[i][1] \in DOMAIN ms
      /\ \A k \in DOMAIN ms :
           \E i \in DOMAIN ps : /\ ps[i] = <<k, ms[k]>>
                                /\ \A j \in DOMAIN ps : ps[j][1] = k => i <= j
  <2>1. ASSUME NEW t \in Seq(Tokens)
        PROVE  /\ \A i \in DOMAIN PairsOf(t) :
                    PairsOf(t)[i][1] \in DOMAIN StrPairAppendToMap(t)
               /\ \A k \in DOMAIN StrPairAppendToMap(t) :
                    \E i \in DOMAIN PairsOf(t) :
                      /\ PairsOf(t)[i] = <<k, StrPairAppendToMap(t)[k]>>
                      /\ \A j \in DOMAIN PairsOf(t) : PairsOf(t)[j][1] = k => i <= j
    BY MapIs
  <2> QED BY <1>1, <2>1, Zenon DEF ps
<1>10. /\ \A i \in DOMAIN pd : pd[i][1] \in DOMAIN md
       /\ \A k \in DOMAIN md :
            \E i \in DOMAIN pd : /\ pd[i] = <<k, md[k]>>
                                 /\ \A j \in DOMAIN pd : pd[j][1] = k => i <= j
  BY MapIs DEF pd
<1>11. /\ DataKeysOf(s) = {k \in DOMAIN ms : \A f \in Range(Header) : k # <<f>>}
       /\ DataKeysOf(d) = {k \in DOMAIN md : \A f \in Range(Header) : k # <<f>>}
  BY DEF DataKeysOf
<1>12. \A i \in 1..9 : Header[i] \in Range(Header)
  BY HeaderNames
<1> HIDE DEF ms, md
<1>13. ASSUME NEW k \in DataKeysOf(s)
       PROVE  k \in DataKeysOf(d) /\ ms[k] = md[k]
  <2>1. k \in DOMAIN ms /\ \A f \in Range(Header) : k # <<f>>
    BY <1>11
  <2>2. PICK i \in DOMAIN ps : /\ ps[i] = <<k, ms[k]>>
                               /\ \A j \in DOMAIN ps : ps[j][1] = k => i <= j
    BY <1>9, <2>1
  <2>3. ps[i][1] = k
    BY <2>2
  <2>4. i \in 1..(9 + Len(x)) /\ i \notin 1..9
    <3>1. i \notin 1..9
      BY <1>6, <1>12, <2>1, <2>3
    <3> QED BY <1>4, <1>7, <3>1
  <2>5. PICK j \in 1..Len(x) : i = 9 + j
    <3>1. Len(x) \in Nat
      BY <1>3
    <3>2. \A l \in Nat : \A j \in 1..(9 + l) :
            j \notin 1..9 => j - 9 \in 1..l /\ j = 9 + (j - 9)
      OBVIOUS
    <3>3. i - 9 \in 1..Len(x) /\ i = 9 + (i - 9)
      BY <2>4, <3>1, <3>2, Zenon
    <3> QED BY <3>3
  <2>6. j \in DOMAIN pd /\ pd[j] = <<k, ms[k]>> /\ pd[j][1] = k
    BY <1>8, <2>2, <2>5
  <2>7. k \in DOMAIN md
    BY <1>10, <2>6
  <2>8. PICK l \in DOMAIN pd : /\ pd[l] = <<k, md[k]>>
                               /\ \A o \in DOMAIN pd : pd[o][1] = k => l <= o
    BY <1>10, <2>7
  <2>9. l \in 1..Len(x) /\ l <= j
    BY <1>3, <2>6, <2>8
  <2>10. 9 + l \in DOMAIN ps /\ ps[9 + l][1] = k
    <3>1. pd[l][1] = k
      BY <2>8
    <3> QED BY <1>8, <2>8, <2>9, <3>1
  <2>11. i <= 9 + l
    BY <2>2, <2>10
  <2>12. l = j
    BY <1>3, <2>5, <2>9, <2>11
  <2>13. <<k, ms[k]>> = <<k, md[k]>>
    BY <2>6, <2>8, <2>12
  <2>14. ms[k] = md[k]
    BY <2>13
  <2> QED BY <1>11, <2>1, <2>7, <2>14
<1>14. ASSUME NEW k \in DataKeysOf(d) PROVE k \in DataKeysOf(s)
  <2>1. k \in DOMAIN md /\ \A f \in Range(Header) : k # <<f>>
    BY <1>11
  <2>2. PICK j \in DOMAIN pd : pd[j] = <<k, md[k]>>
    BY <1>10, <2>1
  <2>3. 9 + j \in DOMAIN ps /\ ps[9 + j][1] = k
    BY <1>3, <1>8, <2>2
  <2>4. k \in DOMAIN ms
    BY <1>9, <2>3
  <2> QED BY <1>11, <2>1, <2>4
<1> QED BY <1>13, <1>14 DEF ms, md

\* CCmd::ToString and CCmd::InitCCmd: a field read is the field written,
\* however much of the data is cut.
THEOREM ReadsBack ==
  ASSUME NEW c, Faithful(c)
  PROVE  /\ CmdToString(c) \in Seq(Tokens)
         /\ Len(CmdToString(c)) <= MsgSize
         /\ \A f \in Range(Header) : InitCCmd(CmdToString(c)).head[f] = c.head[f]
<1>1. Writable(c)
  BY FaithfulWritable
<1>2. PICK d \in Seq(Tokens) : CmdToString(c) = HeadText(c) \o d
  BY <1>1, ToStringIs
<1>3. \A f \in Range(Header) : InitCCmd(HeadText(c) \o d).head[f] = c.head[f]
  BY HeadSurvives
<1> QED BY <1>1, <1>2, <1>3, ToStringIs

-----------------------------------------------------------------------------
(* The hops of a request.                                                  *)

\* A command that leads back to the client's socket.
Leads(c) == \A f \in DOMAIN Socket : c.head[f] = Socket[f]

\* The request of the client's is the one under way until the second
\* service keeps a copy of it, and what it then sends is a request without
\* a socket that the answer to is waited for by its number.
Hops ==
  /\ where \in {"client", "q2"} => own = FreshCmd
  /\ own # FreshCmd => Leads(own)
  /\ where \in {"q1", "q2"} /\ own = FreshCmd =>
       Leads(InitCCmd(text)) /\ InitCCmd(text).head["type"] = "1"
  /\ where = "q1" /\ own # FreshCmd =>
       /\ InitCCmd(text).head["serialno"] = "serial"
       /\ InitCCmd(text).head["cliIp"] = ""
       /\ InitCCmd(text).head["ret"] = "0"
  /\ where = "back" => Leads(InitCCmd(text))

CodecInv == TypeOK /\ Hops /\ RoutedBack

\* The fields of a socket are fields of a command, and their values may be
\* written and read.
LEMMA SocketFields ==
  /\ DOMAIN Socket = {"fd", "family", "cliIp", "cliPort"}
  /\ DOMAIN Socket \subseteq Range(Header)
  /\ \A f \in DOMAIN Socket \ {"cliIp"} : Socket[f] \in Numbers
  /\ \A f \in DOMAIN Socket : Socket[f] \in Tokens
<1>1. /\ DOMAIN Socket = {"fd", "family", "cliIp", "cliPort"}
      /\ \A f \in DOMAIN Socket \ {"cliIp"} : Socket[f] \in Numbers
  BY CmdCodecAssumption, Zenon
<1>2. DOMAIN Socket \subseteq Range(Header)
  BY <1>1, HeaderNames
<1>3. Numbers \cup {Socket["cliIp"]} \subseteq Tokens
  BY Zenon DEF Tokens
<1>4. \A f \in DOMAIN Socket : Socket[f] \in Tokens
  BY <1>1, <1>3
<1> QED BY <1>1, <1>2, <1>4

\* The type of two tokens.
LEMMA PairTyped ==
  ASSUME NEW T, NEW a \in T, NEW b \in T
  PROVE  <<a, b>> \in Seq(T)
OBVIOUS

\* The words of the answers.
LEMMA AnswerWords ==
  /\ <<"resp1", "=", "r1">> \in Seq(Tokens)
  /\ <<" ", "by pid">> \in Seq(Tokens)
  /\ <<"&", "resp2", "=", "r2">> \in Seq(Tokens)
  /\ \A n \in Numbers : ErrorOf(n) \in Seq(Tokens)
<1>1. {"resp1", "=", "r1", " ", "by pid", "&", "resp2", "r2"} \subseteq Tokens
  BY Zenon DEF Tokens
<1>2. /\ "resp1" \in Tokens /\ "=" \in Tokens /\ "r1" \in Tokens
      /\ " " \in Tokens /\ "by pid" \in Tokens /\ "&" \in Tokens
      /\ "resp2" \in Tokens /\ "r2" \in Tokens
  BY <1>1, Zenon
<1>3. <<"resp1", "=", "r1">> \in Seq(Tokens)
  BY <1>2, TripleTyped, Zenon
<1>4. <<" ", "by pid">> \in Seq(Tokens)
  BY <1>2, PairTyped, Zenon
<1>5. <<"&", "resp2", "=">> \in Seq(Tokens) /\ <<"r2">> \in Seq(Tokens)
  BY <1>2, TripleTyped, OneToken, Zenon
<1>6. <<"&", "resp2", "=", "r2">> = <<"&", "resp2", "=">> \o <<"r2">>
  BY FourTokens, Zenon
<1> DEFINE u == <<"&", "resp2", "=">>
           v == <<"r2">>
<1>7. u \o v \in Seq(Tokens)
  <2>1. u \in Seq(Tokens) /\ v \in Seq(Tokens)
    BY <1>5
  <2> HIDE DEF u, v
  <2> QED BY <2>1
<1>8. ASSUME NEW n \in Numbers PROVE ErrorOf(n) \in Seq(Tokens)
  <2> DEFINE x == <<"errCode", "=", n>>
             y == <<"&", "resp", "=">>
             z == <<"Err happend!">>
  <2>1. /\ "errCode" \in Tokens /\ "=" \in Tokens /\ "&" \in Tokens
        /\ "resp" \in Tokens /\ "Err happend!" \in Tokens /\ n \in Tokens
    BY Zenon DEF Tokens
  <2>2. x \in Seq(Tokens) /\ y \in Seq(Tokens) /\ z \in Seq(Tokens)
    <3>1. x \in Seq(Tokens)
      BY <2>1, TripleTyped, Zenon
    <3>2. y \in Seq(Tokens)
      BY <2>1, TripleTyped, Zenon
    <3>3. z \in Seq(Tokens)
      BY <2>1, OneToken, Zenon
    <3> QED BY <3>1, <3>2, <3>3, Zenon
  <2>3. ErrorOf(n) = x \o (y \o z)
    BY FourTokens, Zenon DEF ErrorOf
  <2> HIDE DEF x, y, z
  <2>4. y \o z \in Seq(Tokens)
    BY <2>2
  <2> QED BY <2>2, <2>3, <2>4, TextsAssociate, Zenon
<1> QED BY <1>3, <1>4, <1>6, <1>7, <1>8, Zenon

\* A command whose socket is the client's, or none, can be read again.
LEMMA LeadsFaithful ==
  ASSUME NEW c, CmdOK(c), Leads(c)
  PROVE  Faithful(c)
BY SocketFields DEF Faithful, Leads

\* A command with a field set, and one with other data.
LEMMA FieldSet ==
  ASSUME NEW c, CmdOK(c), NEW f \in Range(Header) \ {"cliIp"}, NEW n \in Numbers
  PROVE  /\ CmdOK([c EXCEPT !.head[f] = n])
         /\ \A g \in Range(Header) :
              [c EXCEPT !.head[f] = n].head[g] = IF g = f THEN n ELSE c.head[g]
<1>1. n \in Tokens
  BY Zenon DEF Tokens
<1> QED BY <1>1 DEF CmdOK

\* The same for other data.
LEMMA DataSet ==
  ASSUME NEW c, CmdOK(c), NEW d \in Seq(Tokens)
  PROVE  /\ CmdOK([c EXCEPT !.data = d])
         /\ [c EXCEPT !.data = d].head = c.head
BY DEF CmdOK

\* CTcpNetHandler::DoRecv: the command that is sent on leads to the socket.
LEMMA SocketSet ==
  ASSUME NEW c, CmdOK(c)
  PROVE  /\ CmdOK(WithSocket(c))
         /\ Leads(WithSocket(c))
         /\ WithSocket(c).head["type"] = "1"
<1> DEFINE h == [f \in Range(Header) |->
                   IF f \in DOMAIN Socket THEN Socket[f]
                   ELSE IF f = "type" THEN "1" ELSE c.head[f]]
<1>1. WithSocket(c) = [c EXCEPT !.head = h]
  BY Zenon DEF WithSocket
<1>2. "1" \in Numbers /\ "1" \in Tokens
  BY KnownNumbers DEF Tokens
<1>3. \A f \in Range(Header) : c.head[f] \in Tokens
  BY DEF CmdOK
<1>4. \A f \in Range(Header) \ {"cliIp"} : c.head[f] \in Numbers
  BY DEF CmdOK
<1>5. h \in [Range(Header) -> Tokens]
  BY <1>2, <1>3, SocketFields
<1>6. \A f \in Range(Header) \ {"cliIp"} : h[f] \in Numbers
  BY <1>2, <1>4, SocketFields
<1>7. /\ \A f \in DOMAIN Socket : h[f] = Socket[f]
      /\ h["type"] = "1"
  <2>1. "type" \in Range(Header) \ DOMAIN Socket
    BY HeaderNames, SocketFields
  <2> QED BY <2>1, SocketFields
<1> HIDE DEF h
<1>8. CmdOK([c EXCEPT !.head = h]) /\ [c EXCEPT !.head = h].head = h
  BY <1>5, <1>6 DEF CmdOK
<1> QED BY <1>1, <1>7, <1>8, Zenon DEF Leads

\* The reply to netio: a command that leads where its command leads.
LEMMA ReplySends ==
  ASSUME NEW c, CmdOK(c), Leads(c), Reply(c)
  PROVE  /\ where' = "back"
         /\ \E b : /\ Faithful(b) /\ Leads(b)
                   /\ b.data = c.data \o <<" ", "by pid">>
                   /\ text' = CmdToString(b)
<1> DEFINE a == [c EXCEPT !.head["type"] = "2"]
           d == c.data \o <<" ", "by pid">>
           b == [a EXCEPT !.data = d]
<1>1. text' = CmdToString(b) /\ where' = "back"
  <2>1. b = [c EXCEPT !.head["type"] = "2", !.data = @ \o <<" ", "by pid">>]
    BY DEF CmdOK
  <2> QED BY <2>1, Zenon DEF Reply
<1>2. /\ CmdOK(a)
      /\ \A g \in Range(Header) : a.head[g] = IF g = "type" THEN "2" ELSE c.head[g]
  <2>1. "type" \in Range(Header) \ {"cliIp"} /\ "2" \in Numbers
    BY HeaderNames, KnownNumbers
  <2> QED BY <2>1, FieldSet
<1>3. d \in Seq(Tokens)
  <2> DEFINE w == <<" ", "by pid">>
  <2>1. c.data \in Seq(Tokens) /\ w \in Seq(Tokens)
    BY AnswerWords DEF CmdOK
  <2> HIDE DEF w
  <2>2. c.data \o w \in Seq(Tokens)
    BY <2>1
  <2> QED BY <2>2 DEF w
<1> HIDE DEF a, d
<1>4. CmdOK(b) /\ b.head = a.head /\ b.data = d
  <2>1. CmdOK(b) /\ b.head = a.head
    BY <1>2, <1>3, DataSet
  <2>2. b.data = d
    BY <1>2 DEF CmdOK
  <2> QED BY <2>1, <2>2
<1> HIDE DEF b
<1>5. Leads(b)
  BY <1>2, <1>4, SocketFields DEF Leads
<1>6. Faithful(b)
  BY <1>4, <1>5, LeadsFaithful
<1> QED BY <1>1, <1>4, <1>5, <1>6 DEF d

\* So its text leads there.
LEMMA ReplyLeads ==
  ASSUME NEW c, CmdOK(c), Leads(c), Reply(c)
  PROVE  /\ where' = "back"
         /\ text' \in Seq(Tokens) /\ Len(text') <= MsgSize
         /\ Leads(InitCCmd(text'))
<1>1. /\ where' = "back"
      /\ \E b : Faithful(b) /\ Leads(b) /\ text' = CmdToString(b)
  BY ReplySends
<1>2. PICK b : Faithful(b) /\ Leads(b) /\ text' = CmdToString(b)
  BY <1>1
<1>3. /\ CmdToString(b) \in Seq(Tokens) /\ Len(CmdToString(b)) <= MsgSize
      /\ \A f \in Range(Header) : InitCCmd(CmdToString(b)).head[f] = b.head[f]
  BY <1>2, ReadsBack
<1>4. Leads(InitCCmd(CmdToString(b)))
  BY <1>2, <1>3, SocketFields DEF Leads
<1> QED BY <1>1, <1>2, <1>3, <1>4

-----------------------------------------------------------------------------
(* The invariant.                                                          *)

\* tcpCmd writes tokens.
LEMMA WrittenTyped ==
  ASSUME NEW ps \in BoundedSeq(Pieces, MaxPieces), NEW cmd \in {"1", "2"}
  PROVE  Written(cmd, ps) \in Seq(Tokens)
<1> DEFINE q == [i \in DOMAIN ps |-> <<"&">> \o ps[i]]
           W == Seq(Tokens)
<1>1. PICK n \in Nat : ps \in [1..n -> Pieces]
  <2>1. PICK m \in 0..MaxPieces : ps \in [1..m -> Pieces]
    BY Zenon DEF BoundedSeq, SeqOf
  <2>2. MaxPieces \in Nat
    BY CmdCodecAssumption, Zenon
  <2> QED BY <2>1, <2>2
<1>2. ASSUME NEW p \in Pieces PROVE p \in Seq(Tokens)
  <2>1. p \in Seq(STRING)
    BY CmdCodecAssumption
  <2>2. Range(p) \subseteq Tokens
    BY Zenon DEF Tokens
  <2>3. \A i \in 1..Len(p) : p[i] \in Tokens
    BY <2>1, <2>2 DEF Range
  <2> QED BY <2>1, <2>3
<1>3. <<"&">> \in Seq(Tokens) /\ <<"cmd", "=", cmd>> \in Seq(Tokens)
  <2>1. cmd \in Numbers
    BY KnownNumbers
  <2>2. {"&", "=", "cmd"} \subseteq Tokens /\ cmd \in Tokens
    BY <2>1, HeaderNames DEF Tokens
  <2> QED BY <2>2
<1>4. \A i \in 1..n : <<"&">> \o ps[i] \in Seq(Tokens)
  BY <1>1, <1>2, <1>3
<1>5. DOMAIN ps = 1..n
  BY <1>1
<1> HIDE DEF W
<1>6. q \in [1..n -> W]
  BY <1>4, <1>5 DEF W
<1>7. q \in Seq(W)
  BY <1>6, FunctionIsSeq
<1> HIDE DEF q
<1>8. FlattenSeq(q) \in Seq(Tokens)
  BY <1>7, FlattenTyped DEF W
<1> QED BY <1>3, <1>8 DEF Written, q

\* The test client's texts are made of tokens, and no request is under way.
LEMMA CodecInit == Init => CodecInv
<1> SUFFICES ASSUME Init PROVE CodecInv
  OBVIOUS
<1>1. where = "client" /\ seen = FreshCmd /\ own = FreshCmd /\ sent.cmd = FreshCmd
  BY DEF Init
<1>2. text \in Seq(Tokens)
  BY WrittenTyped DEF Init
<1> QED BY <1>1, <1>2, FreshOK DEF CodecInv, TypeOK, Hops, RoutedBack

\* The cases of DoRecv: the command is sent on to the queue of its service.
LEMMA DoRecvKeeps ==
  ASSUME CodecInv, DoRecv
  PROVE  CodecInv'
<1> DEFINE c == InitCCmd(text)
           d == WithSocket(c)
<1>1. /\ where = "client" /\ own = FreshCmd
      /\ where' \in {"q1", "q2"}
      /\ text' = CmdToString(d)
      /\ UNCHANGED <<seen, own, sent>>
  BY DEF DoRecv, CodecInv, Hops
<1>2. CmdOK(c)
  BY InitTyped DEF CodecInv, TypeOK
<1> HIDE DEF c
<1>3. CmdOK(d) /\ Leads(d) /\ d.head["type"] = "1"
  BY <1>2, SocketSet
<1> HIDE DEF d
<1>4. Faithful(d)
  BY <1>3, LeadsFaithful
<1>5. /\ text' \in Seq(Tokens) /\ Len(text') <= MsgSize
      /\ \A f \in Range(Header) : InitCCmd(text').head[f] = d.head[f]
  BY <1>1, <1>4, ReadsBack
<1>6. Leads(InitCCmd(text')) /\ InitCCmd(text').head["type"] = "1"
  BY <1>3, <1>5, SocketFields, HeaderNames DEF Leads
<1>7. TypeOK'
  BY <1>1, <1>5 DEF CodecInv, TypeOK, CmdOK
<1>8. Hops'
  BY <1>1, <1>6 DEF Hops, Leads
<1>9. RoutedBack'
  BY <1>1 DEF RoutedBack
<1> QED BY <1>7, <1>8, <1>9, Zenon DEF CodecInv

\* What the first service answers, by the ret it was given.
Result(n) == IF n = "0" THEN <<"resp1", "=", "r1">> ELSE ErrorOf(n)

\* The test of the ret.
LEMMA RetTested ==
  ASSUME NEW c, CmdOK(c), c.data = <<"resp1", "=", "r1">>
  PROVE  /\ CmdOK(Checked(c)) /\ Checked(c).head = c.head
         /\ Checked(c).data = Result(c.head["ret"])
<1> DEFINE n == c.head["ret"]
           b == [c EXCEPT !.data = ErrorOf(n)]
<1>1. n \in Numbers
  <2>1. "ret" \in Range(Header) \ {"cliIp"}
    BY HeaderNames
  <2> QED BY <2>1 DEF CmdOK
<1>2. CASE n = "0"
  <2>1. Checked(c) = c /\ Result(n) = <<"resp1", "=", "r1">>
    BY <1>2, Zenon DEF Checked, Result
  <2> QED BY <2>1, Zenon
<1>3. CASE n # "0"
  <2>1. Checked(c) = b /\ Result(n) = ErrorOf(n)
    BY <1>3, Zenon DEF Checked, Result
  <2>2. ErrorOf(n) \in Seq(Tokens)
    BY <1>1, AnswerWords
  <2>3. CmdOK(b) /\ b.head = c.head
    BY <2>2, DataSet
  <2>4. b.data = ErrorOf(n)
    BY DEF CmdOK
  <2> HIDE DEF b, n
  <2> QED BY <2>1, <2>3, <2>4, Zenon DEF n
<1> QED BY <1>2, <1>3

\* What the first service sends: nothing when it is taken to be suspended; else
\* a reply, to a client only, or a response.
LEMMA SvcTestSends ==
  ASSUME CodecInv, SvcTest
  PROVE  /\ where = "q1" /\ UNCHANGED <<own, sent>> /\ CmdOK(seen')
         /\ \/ where' = "unfinished" /\ text' = text
            \/ \E b : /\ Faithful(b)
                      /\ b.data = Result(InitCCmd(text).head["ret"])
                      /\ \/ Reply(b) /\ Leads(b) /\ own = FreshCmd
                         \/ text' = CmdToString(b) /\ where' = "app"
<1> DEFINE c == InitCCmd(text)
           r == <<"resp1", "=", "r1">>
           a == [c EXCEPT !.data = r]
           o == [a EXCEPT !.head["type"] = "2"]
           b == Checked(o)
<1>1. /\ where = "q1" /\ UNCHANGED <<own, sent>>
      /\ seen' \in {c, seen}
  BY DEF SvcTest
<1>2. CmdOK(c)
  BY InitTyped DEF CodecInv, TypeOK
<1>3. \/ where' = "unfinished" /\ text' = text
      \/ IF b.head["serialno"] = "0" THEN Reply(b)
         ELSE text' = CmdToString(b) /\ where' = "app"
  <2>1. o = [c EXCEPT !.data = r, !.head["type"] = "2"]
    BY <1>2 DEF CmdOK
  <2> QED BY <2>1, Zenon DEF SvcTest
<1>4. r \in Seq(Tokens)
  BY AnswerWords
<1>5. own = FreshCmd => Leads(c)
  BY <1>1 DEF CodecInv, Hops
<1>6. own # FreshCmd => c.head["serialno"] = "serial" /\ c.head["cliIp"] = ""
  BY <1>1 DEF CodecInv, Hops
<1> HIDE DEF c, r
<1>7. CmdOK(a) /\ a.head = c.head /\ a.data = r
  <2>1. CmdOK(a) /\ a.head = c.head
    BY <1>2, <1>4, DataSet
  <2>2. a.data = r
    BY <1>2 DEF CmdOK
  <2> QED BY <2>1, <2>2
<1> HIDE DEF a
<1>8. /\ CmdOK(o)
      /\ \A g \in Range(Header) : o.head[g] = IF g = "type" THEN "2" ELSE c.head[g]
      /\ o.data = r
  <2>1. "type" \in Range(Header) \ {"cliIp"} /\ "2" \in Numbers
    BY HeaderNames, KnownNumbers
  <2>2. /\ CmdOK([a EXCEPT !.head["type"] = "2"])
        /\ \A g \in Range(Header) :
             [a EXCEPT !.head["type"] = "2"].head[g]
               = IF g = "type" THEN "2" ELSE a.head[g]
    BY <1>7, <2>1, FieldSet
  <2>3. o.data = a.data
    BY <1>7 DEF CmdOK
  <2> QED BY <1>7, <2>2, <2>3
<1> HIDE DEF o
<1>9. /\ CmdOK(b) /\ b.data = Result(c.head["ret"])
      /\ \A g \in Range(Header) : b.head[g] = IF g = "type" THEN "2" ELSE c.head[g]
  <2>1. CmdOK(b) /\ b.head = o.head /\ b.data = Result(o.head["ret"])
    BY <1>8, RetTested DEF r
  <2>2. o.head["ret"] = c.head["ret"]
    BY <1>8, HeaderNames
  <2> HIDE DEF b
  <2> QED BY <1>8, <2>1, <2>2
<1> HIDE DEF b
<1>10. CmdOK(seen')
  BY <1>1, <1>2 DEF CodecInv, TypeOK
<1>11. CASE where' = "unfinished" /\ text' = text
  BY <1>1, <1>10, <1>11
<1>12. CASE b.head["serialno"] = "0" /\ Reply(b)
  <2>1. own = FreshCmd
    BY <1>6, <1>9, <1>12, HeaderNames
  <2>2. Leads(b)
    BY <1>5, <1>9, <2>1, SocketFields DEF Leads
  <2>3. Faithful(b)
    BY <1>9, <2>2, LeadsFaithful
  <2> QED BY <1>1, <1>9, <1>10, <1>12, <2>1, <2>2, <2>3 DEF c
<1>13. CASE text' = CmdToString(b) /\ where' = "app"
  <2>1. b.head["cliIp"] \in {"", Socket["cliIp"]}
    BY <1>5, <1>6, <1>9, SocketFields DEF Leads
  <2>2. Faithful(b)
    BY <1>9, <2>1 DEF Faithful
  <2> QED BY <1>1, <1>9, <1>10, <1>13, <2>2 DEF c
<1> QED BY <1>3, <1>11, <1>12, <1>13

\* The first service replies to netio, or to the second service.
LEMMA SvcTestKeeps ==
  ASSUME CodecInv, SvcTest
  PROVE  CodecInv'
<1>1. where = "q1" /\ UNCHANGED <<own, sent>> /\ CmdOK(seen')
  BY SvcTestSends
<1>2. CmdOK(own') /\ CmdOK(sent.cmd')
  BY <1>1 DEF CodecInv, TypeOK
<1>3. CASE where' = "unfinished" /\ text' = text
  <2>1. TypeOK'
    BY <1>1, <1>2, <1>3 DEF CodecInv, TypeOK
  <2>2. Hops' /\ RoutedBack'
    BY <1>1, <1>3 DEF CodecInv, Hops, Leads, RoutedBack
  <2> QED BY <2>1, <2>2 DEF CodecInv
<1>4. ASSUME NEW b, Faithful(b), Reply(b), Leads(b), own = FreshCmd
      PROVE  CodecInv'
  <2>1. /\ where' = "back" /\ Leads(InitCCmd(text'))
        /\ text' \in Seq(Tokens) /\ Len(text') <= MsgSize
    BY <1>4, ReplyLeads DEF Faithful
  <2>2. TypeOK'
    BY <1>1, <1>2, <2>1 DEF TypeOK
  <2>3. Hops' /\ RoutedBack'
    BY <1>1, <1>4, <2>1 DEF Hops, Leads, RoutedBack
  <2> QED BY <2>2, <2>3 DEF CodecInv
<1>5. ASSUME NEW b, Faithful(b), text' = CmdToString(b), where' = "app"
      PROVE  CodecInv'
  <2>1. text' \in Seq(Tokens) /\ Len(text') <= MsgSize
    BY <1>5, ReadsBack
  <2>2. TypeOK'
    BY <1>1, <1>2, <1>5, <2>1 DEF TypeOK
  <2>3. Hops' /\ RoutedBack'
    BY <1>1, <1>5 DEF CodecInv, Hops, Leads, RoutedBack
  <2> QED BY <2>2, <2>3 DEF CodecInv
<1> QED BY SvcTestSends, <1>3, <1>4, <1>5

\* The second service keeps the client's request and sends one of its own.
LEMMA SvcTest2Keeps ==
  ASSUME CodecInv, SvcTest2
  PROVE  CodecInv'
<1> DEFINE c == InitCCmd(text)
           a == [FreshCmd EXCEPT !.head["serialno"] = "serial"]
           b == [a EXCEPT !.head["cmd"] = "2"]
<1>1. /\ where = "q2" /\ where' = "q1" /\ UNCHANGED sent
      /\ seen' = c /\ own' = c
  BY DEF SvcTest2
<1>2. CmdOK(c)
  BY InitTyped DEF CodecInv, TypeOK
<1>3. Leads(c) /\ c.head["type"] = "1"
  BY <1>1 DEF CodecInv, Hops
<1>4. text' = CmdToString(b)
  <2>1. b = [FreshCmd EXCEPT !.head["serialno"] = "serial", !.head["cmd"] = "2"]
    BY FreshOK DEF CmdOK
  <2> QED BY <2>1, Zenon DEF SvcTest2
<1> HIDE DEF c
<1>5. {"serialno", "cmd"} \subseteq Range(Header) \ {"cliIp"}
      /\ "serial" \in Numbers /\ "2" \in Numbers
  BY HeaderNames, KnownNumbers
<1>6. /\ CmdOK(a)
      /\ \A g \in Range(Header) :
           a.head[g] = IF g = "serialno" THEN "serial" ELSE FreshCmd.head[g]
  BY <1>5, FreshOK, FieldSet
<1> HIDE DEF a
<1>7. /\ CmdOK(b)
      /\ \A g \in Range(Header) : b.head[g] = IF g = "cmd" THEN "2" ELSE a.head[g]
  BY <1>5, <1>6, FieldSet
<1> HIDE DEF b
<1>8. b.head["cliIp"] = "" /\ b.head["serialno"] = "serial" /\ b.head["ret"] = "0"
  BY <1>6, <1>7, HeaderNames, FreshFields
<1>9. Faithful(b)
  BY <1>7, <1>8 DEF Faithful
<1>10. /\ text' \in Seq(Tokens) /\ Len(text') <= MsgSize
       /\ \A f \in Range(Header) : InitCCmd(text').head[f] = b.head[f]
  BY <1>4, <1>9, ReadsBack
<1>11. c # FreshCmd
  <2>1. FreshCmd.head["type"] = "0"
    BY FreshFields, HeaderNames
  <2> QED BY <1>3, <2>1
<1>12. TypeOK'
  BY <1>1, <1>2, <1>10 DEF CodecInv, TypeOK
<1>13. Hops'
  <2>1. Leads(own') /\ own' # FreshCmd
    BY <1>1, <1>3, <1>11
  <2>2. /\ InitCCmd(text').head["serialno"] = "serial"
        /\ InitCCmd(text').head["cliIp"] = ""
        /\ InitCCmd(text').head["ret"] = "0"
    BY <1>8, <1>10, HeaderNames
  <2> QED BY <1>1, <2>1, <2>2 DEF Hops, Leads
<1>14. RoutedBack'
  BY <1>1 DEF RoutedBack
<1> QED BY <1>12, <1>13, <1>14 DEF CodecInv

\* What the second service replies to: the request it kept.
LEMMA SvcTest2Replies ==
  ASSUME CodecInv, SvcTest2Resumed
  PROVE  /\ where = "app" /\ own # FreshCmd /\ UNCHANGED <<seen, own, sent>>
         /\ \E c : /\ CmdOK(c) /\ Leads(c) /\ Reply(c)
                   /\ c.data = AnswerOfBoth(InitCCmd(text))
<1> DEFINE d == AnswerOfBoth(InitCCmd(text))
           a == [own EXCEPT !.head["ret"] = "0"]
           b == [a EXCEPT !.head["serialno"] = "0"]
           c == [b EXCEPT !.data = d]
<1>1. where = "app" /\ own # FreshCmd /\ UNCHANGED <<seen, own, sent>>
  BY DEF SvcTest2Resumed, Waits
<1>2. CmdOK(own) /\ Leads(own)
  BY <1>1 DEF CodecInv, TypeOK, Hops
<1>3. Reply(c)
  <2>1. c = [own EXCEPT !.head["ret"] = "0", !.head["serialno"] = "0", !.data = d]
    BY <1>2 DEF CmdOK
  <2> QED BY <2>1, Zenon DEF SvcTest2Resumed
<1>4. d \in Seq(Tokens)
  <2> DEFINE w == <<"&", "resp2", "=", "r2">>
             e == InitCCmd(text).data
  <2>1. w \in Seq(Tokens)
    BY AnswerWords
  <2>2. e \in Seq(Tokens)
    BY InitTyped DEF CodecInv, TypeOK, CmdOK
  <2>3. d = e \o w
    BY Zenon DEF AnswerOfBoth
  <2> HIDE DEF w, e
  <2> QED BY <2>1, <2>2, <2>3
<1> HIDE DEF d
<1>5. {"ret", "serialno"} \subseteq Range(Header) \ {"cliIp"} /\ "0" \in Numbers
  BY HeaderNames, KnownNumbers
<1>6. /\ CmdOK(a)
      /\ \A g \in Range(Header) : a.head[g] = IF g = "ret" THEN "0" ELSE own.head[g]
  BY <1>2, <1>5, FieldSet
<1> HIDE DEF a
<1>7. /\ CmdOK(b)
      /\ \A g \in Range(Header) : b.head[g] = IF g = "serialno" THEN "0" ELSE a.head[g]
  BY <1>5, <1>6, FieldSet
<1> HIDE DEF b
<1>8. CmdOK(c) /\ c.head = b.head /\ c.data = d
  <2>1. CmdOK(c) /\ c.head = b.head
    BY <1>4, <1>7, DataSet
  <2>2. c.data = d
    BY <1>7 DEF CmdOK
  <2> QED BY <2>1, <2>2
<1> HIDE DEF c
<1>9. Leads(c)
  BY <1>2, <1>6, <1>7, <1>8, SocketFields DEF Leads
<1> QED BY <1>1, <1>3, <1>8, <1>9 DEF d

\* The second service answers the request it kept.
LEMMA SvcTest2ResumedKeeps ==
  ASSUME CodecInv, SvcTest2Resumed
  PROVE  CodecInv'
<1>1. where = "app" /\ own # FreshCmd /\ UNCHANGED <<seen, own, sent>>
  BY SvcTest2Replies
<1>2. PICK c : CmdOK(c) /\ Leads(c) /\ Reply(c)
  BY SvcTest2Replies
<1>3. CmdOK(own) /\ Leads(own)
  BY <1>1 DEF CodecInv, TypeOK, Hops
<1>4. /\ where' = "back" /\ Leads(InitCCmd(text'))
      /\ text' \in Seq(Tokens) /\ Len(text') <= MsgSize
  BY <1>2, ReplyLeads
<1>5. TypeOK'
  BY <1>1, <1>4 DEF CodecInv, TypeOK
<1>6. Hops' /\ RoutedBack'
  BY <1>1, <1>3, <1>4 DEF Hops, Leads, RoutedBack
<1> QED BY <1>5, <1>6 DEF CodecInv

\* netio takes the answer apart.
LEMMA OnEventFireKeeps ==
  ASSUME CodecInv, OnEventFire
  PROVE  CodecInv'
<1>1. /\ where = "back" /\ where' = "done"
      /\ sent.cmd' = InitCCmd(text)
      /\ UNCHANGED <<text, seen, own>>
  BY DEF OnEventFire
<1>2. CmdOK(InitCCmd(text)) /\ Leads(InitCCmd(text))
  BY <1>1, InitTyped DEF CodecInv, TypeOK, Hops
<1>3. TypeOK'
  BY <1>1, <1>2 DEF CodecInv, TypeOK
<1>4. Hops'
  BY <1>1 DEF CodecInv, Hops, Leads
<1>5. RoutedBack'
  BY <1>1, <1>2 DEF RoutedBack, Leads
<1> QED BY <1>3, <1>4, <1>5 DEF CodecInv

\* Every hop keeps the invariant.
LEMMA CodecNext == CodecInv /\ [Next]_vars => CodecInv'
<1> SUFFICES ASSUME CodecInv, [Next]_vars PROVE CodecInv'
  OBVIOUS
<1>1. CASE DoRecv
  BY <1>1, DoRecvKeeps
<1>2. CASE SvcTest
  BY <1>2, SvcTestKeeps
<1>3. CASE SvcTest2
  BY <1>3, SvcTest2Keeps
<1>4. CASE SvcTest2Resumed
  BY <1>4, SvcTest2ResumedKeeps
<1>5. CASE OnEventFire
  BY <1>5, OnEventFireKeeps
<1>6. CASE UNCHANGED vars
  BY <1>6 DEF vars, CodecInv, TypeOK, Hops, Leads, RoutedBack
<1> QED BY <1>1, <1>2, <1>3, <1>4, <1>5, <1>6, Zenon DEF Next

\* The invariant holds throughout a request's way.
THEOREM CodecAlways == Spec => []CodecInv
BY CodecInit, CodecNext, PTL DEF Spec

\* The texts of ToString fit the buffer of a message and their fields are
\* numbers, whatever a client writes.
THEOREM CodecTyped == Spec => []TypeOK
<1>1. CodecInv => TypeOK
  BY DEF CodecInv
<1> QED BY <1>1, CodecAlways, PTL

\* DoRecv's own fields outlive every key of the client's: an answer names
\* the socket its request came from.
THEOREM AnswersRoutedBack == Spec => []RoutedBack
<1>1. CodecInv => RoutedBack
  BY DEF CodecInv
<1> QED BY <1>1, CodecAlways, PTL

-----------------------------------------------------------------------------
(* The pairs of the answers.                                               *)

\* A text of one pair.
LEMMA TextOfOne ==
  ASSUME NEW keys, NEW r, NEW m, Lists(r, 1, keys), Clean(m, keys)
  PROVE  /\ r[1] \in keys
         /\ TextOf(r, m) = (r[1] \o <<"=">>) \o m[r[1]]
<1> DEFINE q == [i \in 1..1 |-> PairText(r, m, i)]
           e == <<"=">>
<1>1. /\ DOMAIN r = 1..1 /\ r[1] \in keys
      /\ r[1] \in Seq(Plain) /\ m[r[1]] \in Seq(Plain)
  BY DEF Lists, Clean
<1>2. TextOf(r, m) = FlattenSeq(q)
  BY <1>1, Zenon DEF TextOf
<1>3. FlattenSeq(q) = q[1]
  <2>1. Len(q) = 1 /\ 1 \in Nat /\ 1 # 0
    OBVIOUS
  <2> HIDE DEF q
  <2> QED BY <2>1, FlattenUnfolds
<1>4. q[1] = ((<<>> \o r[1]) \o e) \o m[r[1]]
  <2>1. q[1] = (((IF 1 = 1 THEN <<>> ELSE <<"&">>) \o r[1]) \o e) \o m[r[1]]
    BY 1 \in 1..1, Zenon DEF PairText
  <2> HIDE DEF q, e
  <2> QED BY <2>1
<1>5. <<>> \o r[1] = r[1]
  BY <1>1, ConcatEmptySeq
<1> QED BY <1>1, <1>2, <1>3, <1>4, <1>5, Zenon

\* The same for two pairs.
LEMMA TextOfTwo ==
  ASSUME NEW keys, NEW r, NEW m, Lists(r, 2, keys), Clean(m, keys)
  PROVE  TextOf(r, m) = ((r[1] \o <<"=">>) \o m[r[1]])
                          \o (<<"&">> \o ((r[2] \o <<"=">>) \o m[r[2]]))
<1> DEFINE q == [i \in 1..2 |-> PairText(r, m, i)]
           a == <<"&">>
           e == <<"=">>
           S == Seq(Tokens)
<1>1. /\ DOMAIN r = 1..2
      /\ r[1] \in Seq(Plain) /\ m[r[1]] \in Seq(Plain)
      /\ r[2] \in Seq(Plain) /\ m[r[2]] \in Seq(Plain)
  BY DEF Lists, Clean
<1>2. TextOf(r, m) = FlattenSeq(q)
  BY <1>1, Zenon DEF TextOf
<1>3. FlattenSeq(q) = q[1] \o q[2]
  <2>1. Len(q) = 2 /\ 2 \in Nat /\ 2 # 0
    OBVIOUS
  <2> HIDE DEF q
  <2>2. PICK f : /\ FlattenSeq(q) = f[2]
                 /\ f[1] = q[1]
                 /\ \A i \in 1..2 : i # 1 => f[i] = f[i - 1] \o q[i]
    BY <2>1, FlattenUnfolds
  <2>3. 2 \in 1..2 /\ 2 # 1 /\ 2 - 1 = 1
    OBVIOUS
  <2>4. f[2] = f[2 - 1] \o q[2]
    BY <2>2, <2>3, Zenon
  <2> QED BY <2>2, <2>3, <2>4
<1>4. q[1] = (r[1] \o e) \o m[r[1]]
  <2>1. q[1] = (((IF 1 = 1 THEN <<>> ELSE <<"&">>) \o r[1]) \o e) \o m[r[1]]
    BY 1 \in 1..2, Zenon DEF PairText
  <2>2. <<>> \o r[1] = r[1]
    BY <1>1, ConcatEmptySeq
  <2> HIDE DEF q, e
  <2> QED BY <2>1, <2>2
<1>5. q[2] = ((a \o r[2]) \o e) \o m[r[2]]
  <2>1. q[2] = (((IF 2 = 1 THEN <<>> ELSE a) \o r[2]) \o e) \o m[r[2]]
    BY 2 \in 1..2, Zenon DEF PairText
  <2> HIDE DEF q, e, a
  <2> QED BY <2>1
<1>6. ((a \o r[2]) \o e) \o m[r[2]] = a \o ((r[2] \o e) \o m[r[2]])
  <2> DEFINE u == r[2]
             v == m[r[2]]
  <2>1. a \in S /\ e \in S
    <3>1. "&" \in Tokens /\ "=" \in Tokens
      BY DEF Tokens
    <3> QED BY <3>1
  <2>2. u \in S /\ v \in S
    <3>1. Plain \subseteq Tokens
      BY DEF Plain
    <3> QED BY <1>1, <3>1
  <2>3. /\ \A x, y, z \in S : (x \o y) \o z = x \o (y \o z)
        /\ \A x, y \in S : x \o y \in S
    BY TextsAssociate
  <2>4. u \o e \in S
    BY <2>1, <2>2, <2>3, Zenon
  <2>8. \A x, y, z \in S : (x \o y) \o z = x \o (y \o z)
    BY TextsAssociate
  <2>9. a \in S /\ e \in S /\ u \in S /\ v \in S /\ u \o e \in S
    BY <2>1, <2>2, <2>4
  <2> HIDE DEF S, a, e, u, v
  <2>5. (a \o u) \o e = a \o (u \o e)
    BY <2>8, <2>9, ZenonT(60)
  <2>6. (a \o (u \o e)) \o v = a \o ((u \o e) \o v)
    BY <2>8, <2>9, ZenonT(60)
  <2>7. ((a \o u) \o e) \o v = a \o ((u \o e) \o v)
    BY <2>5, <2>6, Zenon
  <2> QED BY <2>7, Zenon DEF u, v
<1> QED BY <1>2, <1>3, <1>4, <1>5, <1>6, Zenon

\* The keys and values of the answers.
Resp1 == <<"resp1">>
Resp2 == <<"resp2">>
By == <<" ", "by pid">>
R1 == <<"r1">>
R2 == <<"r2">>
Err1 == <<"errCode">>
Err2 == <<"resp">>
Happend == <<"Err happend!">>

\* The process, as a reply names it.
LEMMA ByTyped == By \in Seq(Plain) /\ Len(By) = 2 /\ By[2] = "by pid"
<1>1. " " \in Plain /\ "by pid" \in Plain
  <2>1. {" ", "by pid"} \subseteq Tokens
    BY Zenon DEF Tokens
  <2> QED BY <2>1 DEF Plain
<1>2. By \in Seq(Plain)
  BY <1>1, PairTyped DEF By
<1>3. Len(By) = 2 /\ By[2] = "by pid"
  BY DEF By
<1> QED BY <1>2, <1>3

\* Behind a single token it makes a trimmed value.
LEMMA BehindToken ==
  \A u \in Seq(Plain) : Len(u) = 1 /\ u[1] # " " =>
    /\ u \o By \in Seq(Plain) /\ Len(u \o By) = 3
    /\ Trimmed(u \o By)
<1>1. ASSUME NEW u \in Seq(Plain), Len(u) = 1, u[1] # " "
      PROVE  /\ u \o By \in Seq(Plain) /\ Len(u \o By) = 3
             /\ Trimmed(u \o By)
  <2> DEFINE w == u \o By
  <2>1. /\ w \in Seq(Plain) /\ Len(w) = Len(u) + Len(By)
        /\ \A j \in 1..(Len(u) + Len(By)) : w[j] = IF j <= Len(u) THEN u[j]
                                                   ELSE By[j - Len(u)]
    BY ByTyped, ConcatProperties
  <2> HIDE DEF w
  <2>2. Len(w) = 3 /\ \A j \in 1..3 : w[j] = IF j <= 1 THEN u[j] ELSE By[j - 1]
    <3>2. Len(By) = 2
      BY ByTyped, Zenon
    <3>3. Len(u) = 1
      BY <1>1, Zenon
    <3>1. Len(u) + Len(By) = 3 /\ Len(u) = 1
      BY <3>2, <3>3
    <3> QED BY <2>1, <3>1
  <2>3. w[1] = u[1] /\ w[3] = By[2]
    <3>1. 1 \in 1..3 /\ 3 \in 1..3 /\ 1 <= 1 /\ ~(3 <= 1) /\ 3 - 1 = 2
      OBVIOUS
    <3>2. w[3] = By[3 - 1] /\ w[1] = u[1]
      BY <2>2, <3>1, Zenon
    <3> QED BY <3>1, <3>2
  <2>4. w[1] # " " /\ w[Len(w)] # " "
    <3>1. By[2] # " "
      BY ByTyped
    <3> QED BY <1>1, <2>2, <2>3, <3>1, Zenon
  <2>5. Trimmed(w)
    BY <2>4, Zenon DEF Trimmed
  <2> QED BY <2>1, <2>2, <2>5 DEF w
<1> QED BY <1>1

\* They are tokens of values, trimmed, and no names of fields.
LEMMA AnswerTokens ==
  /\ Resp1 \in Seq(Plain) /\ Resp2 \in Seq(Plain) /\ Resp1 # Resp2
  /\ R1 \in Seq(Plain) /\ R2 \in Seq(Plain) /\ By \in Seq(Plain)
  /\ R1 \o By \in Seq(Plain) /\ R2 \o By \in Seq(Plain)
  /\ Len(Resp1) = 1 /\ Len(Resp2) = 1 /\ Len(R1) = 1 /\ Len(R2) = 1 /\ Len(By) = 2
  /\ Len(R1 \o By) = 3 /\ Len(R2 \o By) = 3
  /\ Trimmed(Resp1) /\ Trimmed(Resp2) /\ Trimmed(R1)
  /\ Trimmed(R1 \o By) /\ Trimmed(R2 \o By)
  /\ \A f \in Range(Header) : Resp1 # <<f>> /\ Resp2 # <<f>>
<1>1. /\ "resp1" \in Plain /\ "resp2" \in Plain /\ "r1" \in Plain /\ "r2" \in Plain
  <2>1. {"resp1", "resp2", "r1", "r2"} \subseteq Tokens
    BY Zenon DEF Tokens
  <2>2. \A t \in {"resp1", "resp2", "r1", "r2"} : t \notin {"=", "&"}
    OBVIOUS
  <2> QED BY <2>1, <2>2 DEF Plain
<1>2. /\ Resp1 \in Seq(Plain) /\ Len(Resp1) = 1 /\ Resp1[1] = "resp1"
      /\ Resp2 \in Seq(Plain) /\ Len(Resp2) = 1 /\ Resp2[1] = "resp2"
      /\ R1 \in Seq(Plain) /\ Len(R1) = 1 /\ R1[1] = "r1"
      /\ R2 \in Seq(Plain) /\ Len(R2) = 1 /\ R2[1] = "r2"
  BY <1>1, OneToken, Zenon DEF Resp1, Resp2, R1, R2
<1>3. By \in Seq(Plain) /\ Len(By) = 2
  BY ByTyped
<1>5. ASSUME NEW u, Len(u) = 1, u[1] # " " PROVE Trimmed(u)
  BY <1>5, Zenon DEF Trimmed
<1>6. "resp1" # " " /\ "resp2" # " " /\ "r1" # " " /\ "r2" # " "
  OBVIOUS
<1>7. Resp1 # Resp2
  BY <1>2
<1>8. \A f \in Range(Header) : Resp1 # <<f>> /\ Resp2 # <<f>>
  <2>1. "resp1" \notin Range(Header) /\ "resp2" \notin Range(Header)
    BY HeaderNames
  <2>2. ASSUME NEW f \in Range(Header) PROVE Resp1 # <<f>> /\ Resp2 # <<f>>
    <3>1. <<f>>[1] = f
      OBVIOUS
    <3> QED BY <1>2, <2>1, <3>1
  <2> QED BY <2>2
<1>9. Trimmed(Resp1) /\ Trimmed(Resp2) /\ Trimmed(R1)
  BY <1>2, <1>5, <1>6
<1>10. /\ R1 \o By \in Seq(Plain) /\ Len(R1 \o By) = 3 /\ Trimmed(R1 \o By)
       /\ R2 \o By \in Seq(Plain) /\ Len(R2 \o By) = 3 /\ Trimmed(R2 \o By)
  BY <1>2, <1>6, BehindToken
<1> QED BY <1>2, <1>3, <1>7, <1>8, <1>9, <1>10, Zenon

\* The same of the error.
LEMMA ErrorTokens ==
  /\ Err1 \in Seq(Plain) /\ Err2 \in Seq(Plain) /\ Err1 # Err2
  /\ Happend \o By \in Seq(Plain)
  /\ Len(Err1) = 1 /\ Len(Err2) = 1 /\ Len(Happend \o By) = 3
  /\ Trimmed(Err1) /\ Trimmed(Err2) /\ Trimmed(Happend \o By)
  /\ \A f \in Range(Header) : Err1 # <<f>> /\ Err2 # <<f>>
  /\ \A n \in Numbers : <<n>> \in Seq(Plain) /\ Trimmed(<<n>>) /\ Len(<<n>>) = 1
<1>1. "errCode" \in Plain /\ "resp" \in Plain /\ "Err happend!" \in Plain
  <2>1. {"errCode", "resp", "Err happend!"} \subseteq Tokens
    BY Zenon DEF Tokens
  <2>2. \A t \in {"errCode", "resp", "Err happend!"} : t \notin {"=", "&"}
    OBVIOUS
  <2> QED BY <2>1, <2>2 DEF Plain
<1>2. /\ Err1 \in Seq(Plain) /\ Len(Err1) = 1 /\ Err1[1] = "errCode"
      /\ Err2 \in Seq(Plain) /\ Len(Err2) = 1 /\ Err2[1] = "resp"
      /\ Happend \in Seq(Plain) /\ Len(Happend) = 1 /\ Happend[1] = "Err happend!"
  BY <1>1, OneToken, Zenon DEF Err1, Err2, Happend
<1>3. ASSUME NEW u, Len(u) = 1, u[1] # " " PROVE Trimmed(u)
  BY <1>3, Zenon DEF Trimmed
<1>4. "errCode" # " " /\ "resp" # " " /\ "Err happend!" # " "
  OBVIOUS
<1>5. Err1 # Err2
  BY <1>2
<1>6. \A f \in Range(Header) : Err1 # <<f>> /\ Err2 # <<f>>
  <2>1. "errCode" \notin Range(Header) /\ "resp" \notin Range(Header)
    BY HeaderNames
  <2>2. ASSUME NEW f \in Range(Header) PROVE Err1 # <<f>> /\ Err2 # <<f>>
    <3>1. <<f>>[1] = f
      OBVIOUS
    <3> QED BY <1>2, <2>1, <3>1
  <2> QED BY <2>2
<1>7. Trimmed(Err1) /\ Trimmed(Err2)
  BY <1>2, <1>3, <1>4
<1>8. Happend \o By \in Seq(Plain) /\ Len(Happend \o By) = 3 /\ Trimmed(Happend \o By)
  BY <1>2, <1>4, BehindToken
<1>9. ASSUME NEW n \in Numbers
      PROVE  <<n>> \in Seq(Plain) /\ Trimmed(<<n>>) /\ Len(<<n>>) = 1
  <2>1. n \in Plain /\ n # " "
    <3>1. n \in Tokens
      BY Zenon DEF Tokens
    <3>2. {"=", "&", " "} \cap (Numbers \cup {Socket["cliIp"]}) = {}
      BY CmdCodecAssumption, Zenon
    <3>3. n # "=" /\ n # "&" /\ n # " "
      BY <3>2
    <3> QED BY <3>1, <3>3 DEF Plain
  <2> DEFINE u == <<n>>
  <2>2. u \in Seq(Plain) /\ Len(u) = 1 /\ u[1] = n
    BY <2>1, OneToken, Zenon
  <2> HIDE DEF u
  <2>3. Trimmed(u)
    BY <1>3, <2>1, <2>2
  <2> QED BY <2>2, <2>3 DEF u
<1> QED BY <1>2, <1>5, <1>6, <1>7, <1>8, <1>9, Zenon

\* The pairs of a text of one pair.
LEMMA MapOfOne ==
  ASSUME NEW k \in Seq(Plain), NEW v \in Seq(Plain), Trimmed(k), Trimmed(v),
         NEW t, t = (k \o <<"=">>) \o v
  PROVE  /\ t \in Seq(Tokens)
         /\ DOMAIN StrPairAppendToMap(t) = {k}
         /\ StrPairAppendToMap(t)[k] = v
<1> DEFINE r == [i \in 1..1 |-> k]
           m == [x \in {k} |-> v]
<1>1. r[1] = k /\ m[k] = v
  OBVIOUS
<1>2. Lists(r, 1, {k})
  BY DEF Lists
<1> HIDE DEF r, m
<1>3. Clean(m, {k})
  BY <1>1 DEF Clean
<1>4. TextOf(r, m) = t
  <2>1. TextOf(r, m) = (r[1] \o <<"=">>) \o m[r[1]]
    BY <1>2, <1>3, TextOfOne
  <2> QED BY <1>1, <2>1, Zenon
<1>5. /\ TextOf(r, m) \in Seq(Tokens)
      /\ DOMAIN StrPairAppendToMap(TextOf(r, m)) = {k}
      /\ \A x \in {k} : StrPairAppendToMap(TextOf(r, m))[x] = m[x]
  BY <1>2, <1>3, MapOfText, 1 \in Nat
<1> QED BY <1>1, <1>4, <1>5

\* A text of two pairs with two keys.
TwoPairs(t, k, v, l, w) ==
  /\ k # l
  /\ \A x \in {k, v, l, w} : x \in Seq(Plain) /\ Trimmed(x)
  /\ t = ((k \o <<"=">>) \o v) \o (<<"&">> \o ((l \o <<"=">>) \o w))

\* The pairs of a text of two.
LEMMA MapOfTwo ==
  ASSUME NEW t, NEW k, NEW v, NEW l, NEW w, TwoPairs(t, k, v, l, w)
  PROVE  /\ t \in Seq(Tokens)
         /\ DOMAIN StrPairAppendToMap(t) = {k, l}
         /\ StrPairAppendToMap(t)[k] = v
         /\ StrPairAppendToMap(t)[l] = w
<1> DEFINE r == [i \in 1..2 |-> IF i = 1 THEN k ELSE l]
           m == [x \in {k, l} |-> IF x = k THEN v ELSE w]
<1>0. k # l /\ \A x \in {k, v, l, w} : x \in Seq(Plain) /\ Trimmed(x)
  BY Zenon DEF TwoPairs
<1>1. r[1] = k /\ r[2] = l /\ m[k] = v /\ m[l] = w
  BY <1>0
<1>2. Lists(r, 2, {k, l})
  <2>1. r \in [1..2 -> {k, l}]
    OBVIOUS
  <2>2. 1 \in 1..2 /\ 2 \in 1..2 /\ \A i \in 1..2 : i = 1 \/ i = 2
    OBVIOUS
  <2> HIDE DEF r
  <2>3. \A i, j \in 1..2 : r[i] = r[j] => i = j
    BY <1>0, <1>1, <2>2
  <2>4. \A x \in {k, l} : \E i \in 1..2 : r[i] = x
    BY <1>1, <2>2
  <2> QED BY <2>1, <2>3, <2>4, Zenon DEF Lists
<1> HIDE DEF r, m
<1>3. Clean(m, {k, l})
  BY <1>0, <1>1 DEF Clean
<1>4. TextOf(r, m) = t
  <2>1. TextOf(r, m) = ((r[1] \o <<"=">>) \o m[r[1]])
                         \o (<<"&">> \o ((r[2] \o <<"=">>) \o m[r[2]]))
    BY <1>2, <1>3, TextOfTwo
  <2> QED BY <1>1, <2>1, Zenon DEF TwoPairs
<1>5. /\ TextOf(r, m) \in Seq(Tokens)
      /\ DOMAIN StrPairAppendToMap(TextOf(r, m)) = {k, l}
      /\ \A x \in {k, l} : StrPairAppendToMap(TextOf(r, m))[x] = m[x]
  BY <1>2, <1>3, MapOfText, 2 \in Nat
<1> QED BY <1>1, <1>4, <1>5

\* The length of one pair that is written.
LEMMA PairLength ==
  ASSUME NEW k \in Seq(Plain), NEW v \in Seq(Plain)
  PROVE  /\ (k \o <<"=">>) \o v \in Seq(Tokens)
         /\ Len((k \o <<"=">>) \o v) = Len(k) + Len(v) + 1
<1> DEFINE e == <<"=">>
           S == Seq(Tokens)
<1>1. e \in S /\ Len(e) = 1
  <2>1. "=" \in Tokens
    BY DEF Tokens
  <2> QED BY <2>1
<1>2. k \in S /\ v \in S
  <2>1. Plain \subseteq Tokens
    BY DEF Plain
  <2> QED BY <2>1
<1> HIDE DEF e
<1>3. k \o e \in S /\ Len(k \o e) = Len(k) + Len(e)
  BY <1>1, <1>2, ConcatProperties
<1>4. (k \o e) \o v \in S /\ Len((k \o e) \o v) = Len(k \o e) + Len(v)
  BY <1>2, <1>3, ConcatProperties
<1>5. Len(k) \in Nat /\ Len(v) \in Nat
  OBVIOUS
<1>6. Len((k \o e) \o v) = Len(k) + Len(v) + 1
  BY <1>1, <1>3, <1>4, <1>5
<1> QED BY <1>4, <1>6 DEF e

\* The data of one pair, as InitCCmd leaves it.
LEMMA DataOfOne ==
  ASSUME NEW s \in Seq(Tokens), NEW k, DataKeysOf(s) = {k},
         NEW v, StrPairAppendToMap(s)[k] = v
  PROVE  InitCCmd(s).data = (k \o <<"=">>) \o v
<1> DEFINE m == StrPairAppendToMap(s)
           r == InOrder({k})
<1>1. Cardinality({k}) = 1
  BY FS_Singleton
<1>2. Lists(r, 1, {k}) /\ Clean(m, {k})
  BY <1>1, KeysListed
<1>3. InitCCmd(s).data = TextOf(r, m)
  BY DataIs
<1> HIDE DEF r, m
<1>4. r[1] \in {k} /\ TextOf(r, m) = (r[1] \o <<"=">>) \o m[r[1]]
  BY <1>2, TextOfOne
<1> QED BY <1>3, <1>4 DEF m

\* The size of data of two pairs.
LEMMA DataOfTwo ==
  ASSUME NEW s \in Seq(Tokens), NEW k, NEW l, k # l, DataKeysOf(s) = {k, l}
  PROVE  Len(InitCCmd(s).data)
           = Len(k) + Len(StrPairAppendToMap(s)[k])
               + Len(l) + Len(StrPairAppendToMap(s)[l]) + 3
<1> DEFINE m == StrPairAppendToMap(s)
           r == InOrder({k, l})
           Pair(x) == (x \o <<"=">>) \o m[x]
           a == <<"&">>
<1>1. Cardinality({k, l}) = 2
  <2>1. IsFiniteSet({k}) /\ Cardinality({k}) = 1
    BY FS_Singleton
  <2>2. Cardinality({k} \cup {l}) = Cardinality({k}) + 1
    <3>1. l \notin {k}
      OBVIOUS
    <3> QED BY <2>1, <3>1, FS_AddElement
  <2>3. {k} \cup {l} = {k, l}
    OBVIOUS
  <2>4. Cardinality({k, l}) = Cardinality({k}) + 1
    BY <2>2, <2>3, Zenon
  <2>5. Cardinality({k, l}) = 1 + 1
    BY <2>1, <2>4, Zenon
  <2> QED BY <2>5
<1>2. Lists(r, 2, {k, l}) /\ Clean(m, {k, l})
  BY <1>1, KeysListed
<1>3. InitCCmd(s).data = TextOf(r, m)
  BY DataIs
<1> HIDE DEF r, m
<1>4. TextOf(r, m) = Pair(r[1]) \o (a \o Pair(r[2]))
  BY <1>2, TextOfTwo
<1>5. /\ r[1] \in {k, l} /\ r[2] \in {k, l} /\ r[1] # r[2]
      /\ \A x \in {k, l} : x \in Seq(Plain) /\ m[x] \in Seq(Plain)
  BY <1>2 DEF Lists, Clean
<1>6. \A x \in {k, l} : /\ Pair(x) \in Seq(Tokens)
                        /\ Len(Pair(x)) = Len(x) + Len(m[x]) + 1
                        /\ Len(x) \in Nat /\ Len(m[x]) \in Nat
  <2>1. ASSUME NEW x \in {k, l}
        PROVE  /\ Pair(x) \in Seq(Tokens)
               /\ Len(Pair(x)) = Len(x) + Len(m[x]) + 1
               /\ Len(x) \in Nat /\ Len(m[x]) \in Nat
    <3>1. x \in Seq(Plain) /\ m[x] \in Seq(Plain)
      BY <1>5
    <3>2. Len(x) \in Nat /\ Len(m[x]) \in Nat
      BY <3>1
    <3>3. /\ (x \o <<"=">>) \o m[x] \in Seq(Tokens)
          /\ Len((x \o <<"=">>) \o m[x]) = Len(x) + Len(m[x]) + 1
      BY <3>1, PairLength
    <3> QED BY <3>2, <3>3, Zenon
  <2> QED BY <2>1
<1>7. a \in Seq(Tokens) /\ Len(a) = 1
  <2>1. "&" \in Tokens
    BY DEF Tokens
  <2> QED BY <2>1
<1> HIDE DEF Pair, a
<1>8. ASSUME NEW x \in {k, l}, NEW y \in {k, l}
      PROVE  Len(Pair(x) \o (a \o Pair(y))) = Len(Pair(x)) + (1 + Len(Pair(y)))
  <2>1. a \o Pair(y) \in Seq(Tokens) /\ Len(a \o Pair(y)) = Len(a) + Len(Pair(y))
    BY <1>6, <1>7, ConcatProperties
  <2>2. Len(Pair(x) \o (a \o Pair(y))) = Len(Pair(x)) + Len(a \o Pair(y))
    BY <1>6, <2>1, ConcatProperties
  <2> QED BY <1>7, <2>1, <2>2
<1>9. Len(TextOf(r, m)) = Len(Pair(r[1])) + (1 + Len(Pair(r[2])))
  BY <1>4, <1>5, <1>8, Zenon
<1>10. (r[1] = k /\ r[2] = l) \/ (r[1] = l /\ r[2] = k)
  BY <1>5
<1>11. Len(TextOf(r, m)) = Len(k) + Len(m[k]) + Len(l) + Len(m[l]) + 3
  <2>1. /\ Len(Pair(k)) = Len(k) + Len(m[k]) + 1
        /\ Len(Pair(l)) = Len(l) + Len(m[l]) + 1
        /\ Len(k) \in Nat /\ Len(m[k]) \in Nat /\ Len(l) \in Nat /\ Len(m[l]) \in Nat
    BY <1>6
  <2>2. \/ Len(TextOf(r, m)) = Len(Pair(k)) + (1 + Len(Pair(l)))
        \/ Len(TextOf(r, m)) = Len(Pair(l)) + (1 + Len(Pair(k)))
    BY <1>9, <1>10, Zenon
  <2> DEFINE o == Len(TextOf(r, m))
             k1 == Len(k)
             k2 == Len(m[k])
             l1 == Len(l)
             l2 == Len(m[l])
  <2>3. \/ o = (k1 + k2 + 1) + (1 + (l1 + l2 + 1))
        \/ o = (l1 + l2 + 1) + (1 + (k1 + k2 + 1))
    BY <2>1, <2>2, Zenon
  <2>4. k1 \in Nat /\ k2 \in Nat /\ l1 \in Nat /\ l2 \in Nat
    BY <2>1
  <2> HIDE DEF o, k1, k2, l1, l2
  <2>5. o = k1 + k2 + l1 + l2 + 3
    BY <2>3, <2>4
  <2> QED BY <2>5 DEF o, k1, k2, l1, l2
<1> QED BY <1>3, <1>11 DEF m

\* A text that fits is not cut.
LEMMA CutKeeps ==
  ASSUME NEW s \in Seq(Tokens), Len(s) <= MsgSize
  PROVE  Cut(s) = s
<1> DEFINE m == Min({Len(s), MsgSize})
<1>1. MsgSize \in Nat /\ Len(s) \in Nat
  <2>1. MsgSize \in Nat
    BY CmdCodecAssumption, Zenon
  <2> QED BY <2>1
<1>2. m = Len(s)
  <2>1. {Len(s), MsgSize} \in SUBSET Nat
    BY <1>1
  <2>2. m \in {Len(s), MsgSize} /\ \A n \in {Len(s), MsgSize} : m <= n
    BY <2>1, MinOf
  <2> HIDE DEF m
  <2> QED BY <1>1, <2>2
<1>3. Cut(s) = SubSeq(s, 1, m)
  BY Zenon DEF Cut
<1> HIDE DEF m
<1>4. SubSeq(s, 1, Len(s)) = s
  OBVIOUS
<1> QED BY <1>2, <1>3, <1>4, Zenon

\* Short data arrives with the pairs it was sent with.
LEMMA HopText ==
  ASSUME NEW c, Faithful(c), Len(c.data) <= 9
  PROVE  LET s == CmdToString(c)
         IN  /\ s \in Seq(Tokens)
             /\ DataKeysOf(s) = DataKeysOf(c.data)
             /\ \A k \in DataKeysOf(c.data) :
                  StrPairAppendToMap(s)[k] = StrPairAppendToMap(c.data)[k]
<1>1. Writable(c)
  BY FaithfulWritable
<1>2. c.data \in Seq(Tokens)
  BY <1>1 DEF Writable
<1>3. 36 + Len(c.data) <= MsgSize
  <2>1. MsgSize \in Nat /\ MsgSize >= 4 * Len(Header) + 9
    BY CmdCodecAssumption, Zenon
  <2>2. Len(Header) = 9
    BY HeaderNames
  <2>3. MsgSize >= 45
    BY <2>1, <2>2
  <2>4. Len(c.data) \in Nat
    BY <1>2
  <2> QED BY <2>1, <2>3, <2>4
<1>4. CmdToString(c) \in Seq(Tokens) /\ CmdToString(c) = HeadText(c) \o c.data
  BY <1>1, <1>3, ToStringIs
<1>5. /\ DataKeysOf(CmdToString(c)) = DataKeysOf(c.data)
      /\ \A k \in DataKeysOf(CmdToString(c)) :
           StrPairAppendToMap(CmdToString(c))[k] = StrPairAppendToMap(c.data)[k]
  <2>1. ASSUME NEW s, s = HeadText(c) \o c.data
        PROVE  /\ DataKeysOf(s) = DataKeysOf(c.data)
               /\ \A k \in DataKeysOf(s) :
                    StrPairAppendToMap(s)[k] = StrPairAppendToMap(c.data)[k]
    <3> DEFINE d == c.data
    <3>1. d \in Seq(Tokens) /\ s = HeadText(c) \o d
      BY <1>2, <2>1
    <3> HIDE DEF d
    <3>2. /\ DataKeysOf(s) = DataKeysOf(d)
          /\ \A k \in DataKeysOf(s) : StrPairAppendToMap(s)[k] = StrPairAppendToMap(d)[k]
      BY <1>1, <3>1, HopKeeps
    <3> QED BY <3>2, Zenon DEF d
  <2> QED BY <1>4, <2>1, Zenon
<1> QED BY <1>4, <1>5, Zenon

\* When no key is named like a field, all pairs are data.
LEMMA NoField ==
  ASSUME NEW t \in Seq(Tokens),
         \A k \in DOMAIN StrPairAppendToMap(t) : \A f \in Range(Header) : k # <<f>>
  PROVE  DataKeysOf(t) = DOMAIN StrPairAppendToMap(t)
BY DEF DataKeysOf

\* The texts of the answers: of the first service to the second, of the
\* first to a client, of the second to a client, and of an error.
Asked(s) ==
  /\ DataKeysOf(s) = {Resp1}
  /\ StrPairAppendToMap(s)[Resp1] = R1
ToldOne(s) ==
  /\ DataKeysOf(s) = {Resp1}
  /\ StrPairAppendToMap(s)[Resp1] = R1 \o By
ToldBoth(s) ==
  /\ DataKeysOf(s) = {Resp1, Resp2}
  /\ StrPairAppendToMap(s)[Resp1] = R1
  /\ StrPairAppendToMap(s)[Resp2] = R2 \o By
ToldFail(n, s) ==
  /\ DataKeysOf(s) = {Err1, Err2}
  /\ StrPairAppendToMap(s)[Err1] = <<n>>
  /\ StrPairAppendToMap(s)[Err2] = Happend \o By

First == <<"resp1", "=", "r1">>
Second == <<"&", "resp2", "=", "r2">>

\* Two pairs written as the texts F and G, and what a reply makes of them.
InPairs(k, v, l, w, F, G) ==
  /\ F = (k \o <<"=">>) \o v
  /\ F \o By = (k \o <<"=">>) \o (v \o By)
  /\ (F \o G) \o By
       = ((k \o <<"=">>) \o v) \o (<<"&">> \o ((l \o <<"=">>) \o (w \o By)))
  /\ Len(F) = 3 /\ Len(F \o By) = 5 /\ Len((F \o G) \o By) = 9

\* Pairs of single tokens.
LEMMA PairTexts ==
  ASSUME NEW kt \in Tokens, NEW vt \in Tokens, NEW lt \in Tokens, NEW wt \in Tokens
  PROVE  InPairs(<<kt>>, <<vt>>, <<lt>>, <<wt>>,
                 <<kt, "=", vt>>, <<"&", lt, "=", wt>>)
<1> DEFINE S == Seq(Tokens)
           a == <<"&">>
           e == <<"=">>
           k == <<kt>>
           v == <<vt>>
           l == <<lt>>
           w == <<wt>>
           F == <<kt, "=", vt>>
           G == <<"&", lt, "=", wt>>
<1>1. /\ a \in S /\ e \in S /\ k \in S /\ l \in S /\ v \in S /\ w \in S /\ By \in S
      /\ Len(By) = 2
  <2>1. "&" \in Tokens /\ "=" \in Tokens
    BY DEF Tokens
  <2>2. Plain \subseteq Tokens
    BY DEF Plain
  <2>3. Seq(Plain) \subseteq S
    BY <2>2
  <2>4. By \in S /\ Len(By) = 2
    BY <2>3, AnswerTokens
  <2>5. a \in S /\ e \in S
    BY <2>1, OneToken
  <2>6. k \in S /\ l \in S /\ v \in S /\ w \in S
    BY OneToken
  <2> QED BY <2>4, <2>5, <2>6
<1>2. F = (k \o e) \o v
  <2>1. k \o e = <<kt, "=">>
    BY TwoTokens, Zenon
  <2>2. <<kt, "=">> \o v = F
    BY ThreeTokens, Zenon
  <2> QED BY <2>1, <2>2, Zenon
<1>3. G = ((a \o l) \o e) \o w
  <2>1. G = <<"&", lt, "=">> \o w
    BY FourTokens, Zenon
  <2>2. <<"&", lt, "=">> = <<"&", lt>> \o e
    BY ThreeTokens, Zenon
  <2>3. <<"&", lt>> = a \o l
    BY TwoTokens, Zenon
  <2> QED BY <2>1, <2>2, <2>3, Zenon
<1>23. Len(F) = 3 /\ Len(G) = 4
  OBVIOUS
<1>4. \A x, y, z \in S : (x \o y) \o z = x \o (y \o z)
  BY TextsAssociate
<1>5. \A x, y \in S : x \o y \in S /\ Len(x \o y) = Len(x) + Len(y)
  <2>1. ASSUME NEW x \in S, NEW y \in S
        PROVE  x \o y \in S /\ Len(x \o y) = Len(x) + Len(y)
    BY ConcatProperties
  <2> QED BY <2>1
<1> HIDE DEF S, a, e, k, v, l, w, F, G
<1>6. /\ a \in S /\ e \in S /\ k \in S /\ l \in S /\ v \in S /\ w \in S /\ By \in S
      /\ \A x, y \in S : x \o y \in S
  BY <1>1, <1>5, Zenon
<1>7. a \in S
  BY <1>6
<1>8. e \in S
  BY <1>6
<1>9. l \in S
  BY <1>6
<1>10. v \in S
  BY <1>6
<1>11. w \in S
  BY <1>6
<1>12. By \in S
  BY <1>6
<1> DEFINE f == l \o e
           g == w \o By
           h == k \o e
           p == f \o w
<1>13. f \in S /\ g \in S /\ h \in S /\ p \in S
  <2>1. f \in S /\ g \in S /\ h \in S
    BY <1>6, Zenon
  <2> HIDE DEF f, g, h
  <2>2. p \in S
    BY <1>6, <2>1, Zenon
  <2> QED BY <2>1, <2>2
<1>14. f \in S
  BY <1>13
<1>15. h \in S
  BY <1>13
<1>16. p \in S
  BY <1>13
<1>17. G = a \o p
  <2>1. (a \o l) \o e = a \o f
    BY <1>4, <1>7, <1>8, <1>9, Zenon
  <2> HIDE DEF f
  <2>2. (a \o f) \o w = a \o p
    BY <1>4, <1>7, <1>11, <1>14, Zenon
  <2> HIDE DEF p
  <2> QED BY <1>3, <2>1, <2>2, Zenon
<1>18. p \o By = f \o g
  <2> HIDE DEF f
  <2>1. (f \o w) \o By = f \o (w \o By)
    BY <1>4, <1>11, <1>12, <1>14, Zenon
  <2> QED BY <2>1
<1> HIDE DEF p
<1>19. G \in S /\ G \o By = a \o (f \o g)
  <2>1. a \o p \in S
    BY <1>6, <1>13, Zenon
  <2>2. (a \o p) \o By = a \o (p \o By)
    BY <1>4, <1>7, <1>12, <1>16, Zenon
  <2> QED BY <1>17, <1>18, <2>1, <2>2, Zenon
<1>20. F \in S /\ F \o By = h \o (v \o By)
  <2>1. F = h \o v
    BY <1>2
  <2> HIDE DEF h
  <2>2. h \o v \in S
    BY <1>6, <1>13, Zenon
  <2>3. (h \o v) \o By = h \o (v \o By)
    BY <1>4, <1>10, <1>12, <1>15, Zenon
  <2> QED BY <2>1, <2>2, <2>3, Zenon
<1>21. (F \o G) \o By = F \o (G \o By)
  <2>1. F \in S
    BY <1>20
  <2>2. G \in S
    BY <1>19
  <2> QED BY <1>4, <1>12, <2>1, <2>2, Zenon
<1>22. (F \o G) \o By
         = ((k \o e) \o v) \o (a \o ((l \o e) \o (w \o By)))
  BY <1>2, <1>19, <1>21, Zenon
<1>24. Len(F \o By) = 5
  <2>1. Len(F \o By) = Len(F) + Len(By)
    BY <1>1, <1>5, <1>20, Zenon
  <2>2. Len(By) = 2 /\ Len(F) = 3
    BY <1>1, <1>23, Zenon
  <2> QED BY <2>1, <2>2
<1>25. Len((F \o G) \o By) = 9
  <2>1. F \o G \in S
    BY <1>5, <1>19, <1>20, Zenon
  <2>2. Len((F \o G) \o By) = Len(F \o G) + Len(By)
    BY <1>1, <1>5, <2>1, Zenon
  <2>3. Len(F \o G) = Len(F) + Len(G)
    BY <1>5, <1>19, <1>20, Zenon
  <2>4. Len(By) = 2 /\ Len(F) = 3 /\ Len(G) = 4
    BY <1>1, <1>23, Zenon
  <2> QED BY <2>2, <2>3, <2>4
<1> QED BY <1>2, <1>20, <1>22, <1>23, <1>24, <1>25, Zenon
        DEF InPairs, a, e, k, v, l, w, F, G

\* What the first service writes, and what the replies write, as pairs.
LEMMA AnswerTexts ==
  /\ First = (Resp1 \o <<"=">>) \o R1
  /\ First \o By = (Resp1 \o <<"=">>) \o (R1 \o By)
  /\ (First \o Second) \o By
       = ((Resp1 \o <<"=">>) \o R1) \o (<<"&">> \o ((Resp2 \o <<"=">>) \o (R2 \o By)))
  /\ Len(First) = 3 /\ Len(First \o By) = 5 /\ Len((First \o Second) \o By) = 9
<1> DEFINE kt == "resp1"
           vt == "r1"
           lt == "resp2"
           wt == "r2"
<1>1. kt \in Tokens /\ vt \in Tokens /\ lt \in Tokens /\ wt \in Tokens
  BY Zenon DEF Tokens
<1>2. /\ Resp1 = <<kt>> /\ R1 = <<vt>> /\ Resp2 = <<lt>> /\ R2 = <<wt>>
      /\ First = <<kt, "=", vt>> /\ Second = <<"&", lt, "=", wt>>
  BY Zenon DEF Resp1, R1, Resp2, R2, First, Second
<1> HIDE DEF kt, vt, lt, wt
<1>3. InPairs(<<kt>>, <<vt>>, <<lt>>, <<wt>>,
              <<kt, "=", vt>>, <<"&", lt, "=", wt>>)
  BY <1>1, PairTexts
<1>4. InPairs(Resp1, R1, Resp2, R2, First, Second)
  BY <1>2, <1>3, Zenon
<1> QED BY <1>4, Zenon DEF InPairs

\* The error that replaces an answer, in the reply.
LEMMA ErrorTexts ==
  ASSUME NEW n \in Numbers
  PROVE  /\ ErrorOf(n) \o By
              = ((Err1 \o <<"=">>) \o <<n>>)
                  \o (<<"&">> \o ((Err2 \o <<"=">>) \o (Happend \o By)))
         /\ Len(ErrorOf(n) \o By) = 9
<1> DEFINE kt == "errCode"
           lt == "resp"
           wt == "Err happend!"
           F == <<kt, "=", n>>
           G == <<"&", lt, "=", wt>>
<1>1. kt \in Tokens /\ n \in Tokens /\ lt \in Tokens /\ wt \in Tokens
  BY Zenon DEF Tokens
<1>2. /\ Err1 = <<kt>> /\ Err2 = <<lt>> /\ Happend = <<wt>>
      /\ ErrorOf(n) = F \o G
  BY Zenon DEF Err1, Err2, Happend, ErrorOf
<1> HIDE DEF kt, lt, wt
<1>3. InPairs(<<kt>>, <<n>>, <<lt>>, <<wt>>, F, G)
  BY <1>1, PairTexts
<1> HIDE DEF F, G
<1>4. InPairs(Err1, <<n>>, Err2, Happend, F, G)
  BY <1>2, <1>3, Zenon
<1> QED BY <1>2, <1>4, Zenon DEF InPairs

\* The pairs of what the services write.
LEMMA AnswerMaps ==
  /\ First \in Seq(Tokens) /\ Asked(First)
  /\ First \o By \in Seq(Tokens) /\ ToldOne(First \o By)
  /\ (First \o Second) \o By \in Seq(Tokens) /\ ToldBoth((First \o Second) \o By)
<1>1. /\ Resp1 \in Seq(Plain) /\ Trimmed(Resp1) /\ Resp2 \in Seq(Plain) /\ Trimmed(Resp2)
      /\ R1 \in Seq(Plain) /\ Trimmed(R1) /\ Resp1 # Resp2
      /\ R1 \o By \in Seq(Plain) /\ Trimmed(R1 \o By)
      /\ R2 \o By \in Seq(Plain) /\ Trimmed(R2 \o By)
  BY AnswerTokens, Zenon
<1>2. \A f \in Range(Header) : Resp1 # <<f>> /\ Resp2 # <<f>>
  BY AnswerTokens, Zenon
<1> DEFINE u == R1 \o By
           v == R2 \o By
<1>3. u \in Seq(Plain) /\ Trimmed(u) /\ v \in Seq(Plain) /\ Trimmed(v)
  BY <1>1, Zenon
<1>4. /\ First = (Resp1 \o <<"=">>) \o R1
      /\ First \o By = (Resp1 \o <<"=">>) \o u
      /\ (First \o Second) \o By
           = ((Resp1 \o <<"=">>) \o R1) \o (<<"&">> \o ((Resp2 \o <<"=">>) \o v))
  BY AnswerTexts, Zenon
<1> HIDE DEF u, v
<1>5. ASSUME NEW t \in Seq(Tokens),
             DOMAIN StrPairAppendToMap(t) \subseteq {Resp1, Resp2}
      PROVE  DataKeysOf(t) = DOMAIN StrPairAppendToMap(t)
  <2>1. \A k \in DOMAIN StrPairAppendToMap(t) : \A f \in Range(Header) : k # <<f>>
    BY <1>2, <1>5, Zenon
  <2> QED BY <2>1, NoField
<1>6. First \in Seq(Tokens) /\ Asked(First)
  <2>1. /\ First \in Seq(Tokens) /\ DOMAIN StrPairAppendToMap(First) = {Resp1}
        /\ StrPairAppendToMap(First)[Resp1] = R1
    BY <1>1, <1>4, MapOfOne
  <2>2. DataKeysOf(First) = {Resp1}
    BY <1>5, <2>1
  <2> QED BY <2>1, <2>2, Zenon DEF Asked
<1> DEFINE x == First \o By
           y == (First \o Second) \o By
<1>7. x \in Seq(Tokens) /\ ToldOne(x)
  <2>1. x = (Resp1 \o <<"=">>) \o u
    BY <1>4
  <2> HIDE DEF x
  <2>2. /\ x \in Seq(Tokens) /\ DOMAIN StrPairAppendToMap(x) = {Resp1}
        /\ StrPairAppendToMap(x)[Resp1] = u
    BY <1>1, <1>3, <2>1, MapOfOne
  <2>3. DataKeysOf(x) = {Resp1}
    BY <1>5, <2>2
  <2> QED BY <2>2, <2>3, Zenon DEF ToldOne, u
<1>8. y \in Seq(Tokens) /\ ToldBoth(y)
  <2>1. y = ((Resp1 \o <<"=">>) \o R1) \o (<<"&">> \o ((Resp2 \o <<"=">>) \o v))
    BY <1>4
  <2> HIDE DEF y
  <2>2. /\ y \in Seq(Tokens) /\ DOMAIN StrPairAppendToMap(y) = {Resp1, Resp2}
        /\ StrPairAppendToMap(y)[Resp1] = R1 /\ StrPairAppendToMap(y)[Resp2] = v
    <3> DEFINE k == Resp1
               l == Resp2
               w == R1
    <3>1. k # l /\ \A z \in {k, w, l, v} : z \in Seq(Plain) /\ Trimmed(z)
      BY <1>1, <1>3
    <3>2. TwoPairs(y, k, w, l, v)
      BY <2>1, <3>1, Zenon DEF TwoPairs
    <3> HIDE DEF k, l, w
    <3>3. /\ y \in Seq(Tokens) /\ DOMAIN StrPairAppendToMap(y) = {k, l}
          /\ StrPairAppendToMap(y)[k] = w /\ StrPairAppendToMap(y)[l] = v
      BY <3>2, MapOfTwo
    <3> QED BY <3>3, Zenon DEF k, l, w
  <2>3. DataKeysOf(y) = {Resp1, Resp2}
    BY <1>5, <2>2
  <2> QED BY <2>2, <2>3, Zenon DEF ToldBoth, v
<1> QED BY <1>6, <1>7, <1>8

\* The same of the error.
LEMMA ErrorMap ==
  ASSUME NEW n \in Numbers
  PROVE  ErrorOf(n) \o By \in Seq(Tokens) /\ ToldFail(n, ErrorOf(n) \o By)
<1> DEFINE k == Err1
           l == Err2
           v == <<n>>
           w == Happend \o By
           y == ErrorOf(n) \o By
<1>1. /\ k # l /\ \A z \in {k, v, l, w} : z \in Seq(Plain) /\ Trimmed(z)
      /\ \A f \in Range(Header) : k # <<f>> /\ l # <<f>>
  <2>1. /\ k # l /\ k \in Seq(Plain) /\ l \in Seq(Plain) /\ w \in Seq(Plain)
        /\ Trimmed(k) /\ Trimmed(l) /\ Trimmed(w)
        /\ v \in Seq(Plain) /\ Trimmed(v)
        /\ \A f \in Range(Header) : k # <<f>> /\ l # <<f>>
    BY ErrorTokens, Zenon
  <2> HIDE DEF k, l, v, w
  <2> QED BY <2>1
<1>2. y = ((k \o <<"=">>) \o v) \o (<<"&">> \o ((l \o <<"=">>) \o w))
  BY ErrorTexts, Zenon
<1> HIDE DEF k, l, v, w, y
<1>3. TwoPairs(y, k, v, l, w)
  BY <1>1, <1>2, Zenon DEF TwoPairs
<1>4. /\ y \in Seq(Tokens) /\ DOMAIN StrPairAppendToMap(y) = {k, l}
      /\ StrPairAppendToMap(y)[k] = v /\ StrPairAppendToMap(y)[l] = w
  BY <1>3, MapOfTwo
<1>5. DataKeysOf(y) = {k, l}
  <2>1. \A x \in DOMAIN StrPairAppendToMap(y) : \A f \in Range(Header) : x # <<f>>
    BY <1>1, <1>4
  <2> QED BY <1>4, <2>1, NoField
<1> QED BY <1>4, <1>5, Zenon DEF ToldFail, k, l, v, w, y

\* A command with the data of an answer is sent as a text with its pairs.
LEMMA AnswerSent ==
  ASSUME NEW c, Faithful(c)
  PROVE  /\ c.data = First => Asked(CmdToString(c))
         /\ c.data = First \o By => ToldOne(CmdToString(c))
         /\ c.data = (First \o Second) \o By => ToldBoth(CmdToString(c))
         /\ \A n \in Numbers :
              c.data = ErrorOf(n) \o By => ToldFail(n, CmdToString(c))
<1> DEFINE s == CmdToString(c)
           d == c.data
<1>1. Len(First) <= 9 /\ Len(First \o By) <= 9 /\ Len((First \o Second) \o By) <= 9
  <2>1. Len(First) = 3 /\ Len(First \o By) = 5 /\ Len((First \o Second) \o By) = 9
    BY AnswerTexts, Zenon
  <2>2. 3 <= 9 /\ 5 <= 9 /\ 9 <= 9
    OBVIOUS
  <2> QED BY <2>1, <2>2, Zenon
<1>2. ASSUME Len(d) <= 9
      PROVE  /\ DataKeysOf(s) = DataKeysOf(d)
             /\ \A k \in DataKeysOf(d) : StrPairAppendToMap(s)[k] = StrPairAppendToMap(d)[k]
  BY <1>2, HopText
<1> HIDE DEF s, d
<1>3. ASSUME d = First PROVE Asked(s)
  <2>1. Asked(d) /\ Len(d) <= 9
    BY <1>1, <1>3, AnswerMaps, Zenon
  <2> QED BY <1>2, <2>1 DEF Asked
<1>4. ASSUME d = First \o By PROVE ToldOne(s)
  <2>1. ToldOne(d) /\ Len(d) <= 9
    BY <1>1, <1>4, AnswerMaps, Zenon
  <2> QED BY <1>2, <2>1 DEF ToldOne
<1>5. ASSUME d = (First \o Second) \o By PROVE ToldBoth(s)
  <2>1. ToldBoth(d) /\ Len(d) <= 9
    BY <1>1, <1>5, AnswerMaps, Zenon
  <2> QED BY <1>2, <2>1 DEF ToldBoth
<1>6. ASSUME NEW n \in Numbers, d = ErrorOf(n) \o By PROVE ToldFail(n, s)
  <2>1. ToldFail(n, d) /\ Len(d) = 9
    BY <1>6, ErrorMap, ErrorTexts, Zenon
  <2>2. Len(d) <= 9
    BY <2>1
  <2> QED BY <1>2, <2>1, <2>2 DEF ToldFail
<1> QED BY <1>3, <1>4, <1>5, <1>6, Zenon DEF s, d

\* Short data is not cut.
LEMMA ShortKept ==
  ASSUME NEW d \in Seq(Tokens), Len(d) <= 9
  PROVE  Cut(d) = d
<1>1. MsgSize \in Nat /\ MsgSize >= 4 * Len(Header) + 9
  BY CmdCodecAssumption, Zenon
<1>2. Len(Header) = 9
  BY HeaderNames
<1>3. MsgSize >= 45
  BY <1>1, <1>2
<1>4. Len(d) \in Nat
  OBVIOUS
<1>5. Len(d) <= MsgSize
  BY <1>1, <1>3, <1>4
<1> QED BY <1>5, CutKeeps

\* Data of two short pairs.
TwoShort(s, k, v, l, w) ==
  /\ k # l /\ DataKeysOf(s) = {k, l}
  /\ StrPairAppendToMap(s)[k] = v /\ StrPairAppendToMap(s)[l] = w
  /\ Len(k) = 1 /\ Len(v) = 1 /\ Len(l) = 1 /\ Len(w) = 3

\* netio sends them whole.
LEMMA TwoShown ==
  ASSUME NEW s \in Seq(Tokens), NEW k, NEW v, NEW l, NEW w, TwoShort(s, k, v, l, w)
  PROVE  LET m == StrPairAppendToMap(Cut(InitCCmd(s).data))
         IN  /\ m = [x \in DOMAIN m |-> m[x]]
             /\ DOMAIN m = {k, l} /\ m[k] = v /\ m[l] = w
<1> DEFINE d == InitCCmd(s).data
           md == StrPairAppendToMap(d)
<1>0. /\ k # l /\ DataKeysOf(s) = {k, l}
      /\ StrPairAppendToMap(s)[k] = v /\ StrPairAppendToMap(s)[l] = w
      /\ Len(k) = 1 /\ Len(v) = 1 /\ Len(l) = 1 /\ Len(w) = 3
  BY Zenon DEF TwoShort
<1>1. d \in Seq(Tokens)
  BY InitTyped DEF CmdOK
<1>2. Len(d) = Len(k) + Len(StrPairAppendToMap(s)[k])
                 + Len(l) + Len(StrPairAppendToMap(s)[l]) + 3
  BY <1>0, DataOfTwo
<1>3. DOMAIN md = DataKeysOf(s) /\ \A x \in DataKeysOf(s) : md[x] = StrPairAppendToMap(s)[x]
  BY PairsSurvive
<1>4. md = [x \in DOMAIN md |-> md[x]]
  BY <1>1, MapTrimmed
<1> HIDE DEF d
<1>5. Len(d) <= 9
  <2>1. Len(d) = Len(k) + Len(v) + Len(l) + Len(w) + 3
    BY <1>0, <1>2, Zenon
  <2> QED BY <1>0, <2>1
<1>6. Cut(d) = d
  BY <1>1, <1>5, ShortKept
<1> HIDE DEF md
<1>7. DOMAIN md = {k, l} /\ md[k] = v /\ md[l] = w
  BY <1>0, <1>3, Zenon
<1> QED BY <1>4, <1>6, <1>7, Zenon DEF md, d

\* netio sends the pairs of an answer whole.
LEMMA AnswerShown ==
  ASSUME NEW s \in Seq(Tokens)
  PROVE  LET msg == Cut(InitCCmd(s).data)
         IN  /\ ToldOne(s) => StrPairAppendToMap(msg) = [k \in {Resp1} |-> R1 \o By]
             /\ ToldBoth(s) => StrPairAppendToMap(msg)
                                 = [k \in {Resp1, Resp2} |->
                                      IF k = Resp1 THEN R1 ELSE R2 \o By]
             /\ \A n \in Numbers :
                  ToldFail(n, s) => StrPairAppendToMap(msg)
                                      = [k \in {Err1, Err2} |->
                                           IF k = Err1 THEN <<n>> ELSE Happend \o By]
<1> DEFINE d == InitCCmd(s).data
           md == StrPairAppendToMap(d)
           u == R1 \o By
           v == R2 \o By
<1>1. d \in Seq(Tokens)
  BY InitTyped DEF CmdOK
<1>2. /\ Len(Resp1) = 1 /\ Len(Resp2) = 1 /\ Len(R1) = 1 /\ Len(u) = 3 /\ Len(v) = 3
      /\ Resp1 # Resp2 /\ Resp1 \in Seq(Plain) /\ u \in Seq(Plain)
  BY AnswerTokens, Zenon
<1>3. DOMAIN md = DataKeysOf(s) /\ \A k \in DataKeysOf(s) : md[k] = StrPairAppendToMap(s)[k]
  BY PairsSurvive
<1>4. md = [k \in DOMAIN md |-> md[k]]
  BY <1>1, MapTrimmed
<1>5. ASSUME Len(d) <= 9 PROVE Cut(d) = d
  <2> HIDE DEF d
  <2> QED BY <1>1, <1>5, ShortKept
<1>6. ASSUME ToldOne(s) PROVE StrPairAppendToMap(Cut(d)) = [k \in {Resp1} |-> u]
  <2>1. DataKeysOf(s) = {Resp1} /\ StrPairAppendToMap(s)[Resp1] = u
    BY <1>6 DEF ToldOne
  <2>2. d = (Resp1 \o <<"=">>) \o u
    <3> HIDE DEF u
    <3> QED BY <2>1, DataOfOne
  <2>3. Len((Resp1 \o <<"=">>) \o u) = Len(Resp1) + Len(u) + 1
    <3> HIDE DEF u
    <3> QED BY <1>2, PairLength
  <2>4. Len(Resp1) = 1 /\ Len(u) = 3
    BY <1>2, Zenon
  <2> HIDE DEF d, u
  <2>5. Len(d) <= 9
    BY <2>2, <2>3, <2>4
  <2>6. Cut(d) = d
    BY <1>5, <2>5, Zenon
  <2> HIDE DEF md
  <2>7. DOMAIN md = {Resp1} /\ md[Resp1] = u
    BY <1>3, <2>1, Zenon
  <2>8. md = [k \in {Resp1} |-> u]
    BY <1>4, <2>7
  <2> QED BY <2>6, <2>8, Zenon DEF md
<1>7. ASSUME ToldBoth(s)
      PROVE  StrPairAppendToMap(Cut(d))
               = [k \in {Resp1, Resp2} |-> IF k = Resp1 THEN R1 ELSE v]
  <2>1. /\ DataKeysOf(s) = {Resp1, Resp2}
        /\ StrPairAppendToMap(s)[Resp1] = R1 /\ StrPairAppendToMap(s)[Resp2] = v
    BY <1>7 DEF ToldBoth
  <2>2. TwoShort(s, Resp1, R1, Resp2, v)
    BY <1>2, <2>1, Zenon DEF TwoShort
  <2> DEFINE m == StrPairAppendToMap(Cut(d))
  <2> HIDE DEF v
  <2>3. /\ m = [x \in DOMAIN m |-> m[x]]
        /\ DOMAIN m = {Resp1, Resp2} /\ m[Resp1] = R1 /\ m[Resp2] = v
    BY <2>2, TwoShown, Zenon
  <2> HIDE DEF m
  <2>4. m = [k \in {Resp1, Resp2} |-> IF k = Resp1 THEN R1 ELSE v]
    BY <1>2, <2>3
  <2> QED BY <2>4, Zenon DEF m
<1>8. ASSUME NEW n \in Numbers, ToldFail(n, s)
      PROVE  StrPairAppendToMap(Cut(d))
               = [k \in {Err1, Err2} |-> IF k = Err1 THEN <<n>> ELSE Happend \o By]
  <2> DEFINE a == <<n>>
             b == Happend \o By
  <2>1. /\ DataKeysOf(s) = {Err1, Err2}
        /\ StrPairAppendToMap(s)[Err1] = a /\ StrPairAppendToMap(s)[Err2] = b
    BY <1>8, Zenon DEF ToldFail
  <2>2. Len(Err1) = 1 /\ Len(Err2) = 1 /\ Len(a) = 1 /\ Len(b) = 3 /\ Err1 # Err2
    BY ErrorTokens, Zenon
  <2>3. TwoShort(s, Err1, a, Err2, b)
    BY <2>1, <2>2, Zenon DEF TwoShort
  <2> DEFINE m == StrPairAppendToMap(Cut(d))
  <2> HIDE DEF a, b
  <2>4. /\ m = [x \in DOMAIN m |-> m[x]]
        /\ DOMAIN m = {Err1, Err2} /\ m[Err1] = a /\ m[Err2] = b
    BY <2>3, TwoShown, Zenon
  <2> HIDE DEF m
  <2>5. m = [k \in {Err1, Err2} |-> IF k = Err1 THEN a ELSE b]
    BY <2>2, <2>4
  <2> QED BY <2>5, Zenon DEF m, a, b
<1> QED BY <1>6, <1>7, <1>8, Zenon DEF d, u, v

-----------------------------------------------------------------------------
(* The beginning of a text: what Cut leaves.                               *)

\* One text is the beginning of another.
StartsAs(u, v) == Len(u) <= Len(v) /\ \A i \in 1..Len(u) : u[i] = v[i]

\* The pieces x of the beginning of a text of pieces y: the last of x may
\* go on in y.
Grows(x, y) ==
  /\ Len(x) \in 1..Len(y)
  /\ \A i \in 1..(Len(x) - 1) : x[i] = y[i]
  /\ StartsAs(x[Len(x)], y[Len(x)])

\* A token more lets the pieces grow.
LEMMA StepGrows ==
  ASSUME NEW T, NEW sep, NEW t \in T, NEW x \in SomePieces(T, sep),
         NEW y \in SomePieces(T, sep), Grows(x, y)
  PROVE  Grows(x, SplitStep(y, t, sep))
<1> DEFINE W == Seq(T \ {sep})
           z == SplitStep(y, t, sep)
           n == Len(x)
           m == Len(y)
<1>1. /\ n \in Nat /\ n >= 1 /\ m \in Nat /\ n <= m
      /\ \A i \in 1..(n - 1) : x[i] = y[i]
      /\ StartsAs(x[n], y[n])
      /\ y \in Seq(W) /\ x \in Seq(W)
  BY DEF Grows, SomePieces
<1>2. x[n] \in W /\ y[n] \in W /\ y[m] \in W
  <2>1. n \in 1..Len(x) /\ n \in 1..Len(y) /\ m \in 1..Len(y)
    BY <1>1
  <2> HIDE DEF W, n, m
  <2> QED BY <1>1, <2>1, ElementOfSeq
<1>3. ASSUME t = sep
      PROVE  /\ Len(z) = m + 1
             /\ \A i \in 1..m : z[i] = y[i]
  <2>1. z = Append(y, <<>>)
    BY <1>3 DEF SplitStep
  <2>2. <<>> \in W
    OBVIOUS
  <2> HIDE DEF W, z
  <2>3. Len(z) = Len(y) + 1 /\ \A i \in 1..Len(y) : z[i] = y[i]
    BY <1>1, <2>1, <2>2, AppendProperties
  <2> QED BY <2>3
<1>4. ASSUME t # sep
      PROVE  /\ Len(z) = m
             /\ z[m] = Append(y[m], t)
             /\ \A i \in 1..m : i # m => z[i] = y[i]
  <2> DEFINE e == Append(y[m], t)
  <2>1. z = [y EXCEPT ![m] = e]
    BY <1>4 DEF SplitStep
  <2>2. e \in W
    BY <1>2, <1>4
  <2>3. m \in 1..Len(y)
    BY <1>1
  <2> HIDE DEF W, z, e
  <2>4. Len(z) = Len(y)
    BY <1>1, <2>1, <2>2, <2>3, ExceptSeq
  <2>5. DOMAIN y = 1..m
    BY <1>1
  <2>6. z[m] = e /\ \A i \in 1..m : i # m => z[i] = y[i]
    BY <2>1, <2>3, <2>5
  <2> QED BY <2>4, <2>6 DEF e
<1> HIDE DEF z, n, m
<1>5. ASSUME Len(z) >= m, \A i \in 1..(n - 1) : z[i] = y[i], StartsAs(x[n], z[n])
      PROVE  Grows(x, z)
  <2>1. Len(z) \in Nat
    <3>1. z \in SomePieces(T, sep)
      BY StepTyped DEF z
    <3> QED BY <3>1 DEF SomePieces
  <2>2. n \in 1..Len(z) /\ \A i \in 1..(n - 1) : x[i] = z[i]
    BY <1>1, <1>5, <2>1
  <2> QED BY <1>5, <2>2, Zenon DEF Grows, n
<1>6. CASE t = sep
  <2>1. /\ Len(z) >= m /\ z[n] = y[n] 
        /\ \A i \in 1..(n - 1) : z[i] = y[i]
    BY <1>1, <1>3, <1>6
  <2> QED BY <1>1, <1>5, <2>1 DEF z
<1>7. CASE t # sep
  <2>1. Len(z) >= m /\ \A i \in 1..(n - 1) : z[i] = y[i]
    BY <1>1, <1>4, <1>7
  <2>2. StartsAs(x[n], z[n])
    <3>1. CASE n # m
      <4>1. z[n] = y[n]
        <5>1. n \in 1..m
          BY <1>1
        <5> QED BY <1>4, <1>7, <3>1, <5>1, Zenon
      <4> QED BY <1>1, <4>1
    <3>2. CASE n = m
      <4> DEFINE u == x[n]
                 v == y[m]
                 w == Append(v, t)
      <4>1. u \in W /\ v \in W /\ z[n] = w /\ StartsAs(u, v)
        BY <1>1, <1>2, <1>4, <1>7, <3>2
      <4>2. Len(u) \in Nat /\ Len(v) \in Nat
        <5> HIDE DEF u, v
        <5> QED BY <4>1
      <4>3. Len(w) = Len(v) + 1 /\ \A i \in 1..Len(v) : w[i] = v[i]
        <5> HIDE DEF v
        <5>1. t \in T \ {sep}
          BY <1>7
        <5> QED BY <4>1, <5>1, AppendProperties
      <4> HIDE DEF u, v, w
      <4>4. StartsAs(u, w)
        BY <4>1, <4>2, <4>3 DEF StartsAs
      <4> QED BY <4>1, <4>4 DEF u
    <3> QED BY <3>1, <3>2
  <2> QED BY <1>5, <2>1, <2>2 DEF z
<1> QED BY <1>6, <1>7

\* What the first n tokens split into grows to what all tokens split into.
LEMMA SplitGrows ==
  ASSUME NEW T, NEW s \in Seq(T), NEW sep, NEW h, Split(h, s, sep),
         NEW n \in 0..Len(s)
  PROVE  \A k \in 0..Len(s) : n <= k => Grows(h[n], h[k])
<1> DEFINE N == {k \in Nat : n <= k /\ k <= Len(s) => Grows(h[n], h[k])}
<1>1. /\ Len(s) \in Nat /\ n \in Nat
      /\ \A k \in 1..Len(s) : s[k] \in T
  OBVIOUS
<1>2. \A k \in 0..Len(s) : h[k] \in SomePieces(T, sep)
  BY SplitTyped
<1>3. Grows(h[n], h[n])
  <2> DEFINE x == h[n]
             W == Seq(T \ {sep})
  <2>1. x \in Seq(W) /\ Len(x) \in Nat /\ Len(x) >= 1
    <3>1. x \in SomePieces(T, sep)
      BY <1>2
    <3> HIDE DEF x
    <3> QED BY <3>1 DEF SomePieces
  <2> HIDE DEF x, W
  <2>2. x[Len(x)] \in W
    BY <2>1
  <2>3. StartsAs(x[Len(x)], x[Len(x)])
    <3>1. Len(x[Len(x)]) \in Nat
      BY <2>2 DEF W
    <3> QED BY <3>1 DEF StartsAs
  <2>4. Grows(x, x)
    BY <2>1, <2>3 DEF Grows
  <2> QED BY <2>4 DEF x
<1>4. 0 \in N
  BY <1>1, <1>3
<1>5. ASSUME NEW k \in Nat, k \in N PROVE k + 1 \in N
  <2>1. SUFFICES ASSUME n <= k + 1, k + 1 <= Len(s) PROVE Grows(h[n], h[k + 1])
    OBVIOUS
  <2>2. CASE n = k + 1
    BY <1>3, <2>2
  <2>3. CASE n # k + 1
    <3>1. n <= k /\ k \in 0..Len(s) /\ k + 1 \in 1..Len(s) /\ (k + 1) - 1 = k
      BY <1>1, <2>1, <2>3
    <3>2. Grows(h[n], h[k])
      BY <1>5, <3>1
    <3>3. h[k + 1] = SplitStep(h[k], s[k + 1], sep)
      <4>1. h[k + 1] = SplitStep(h[(k + 1) - 1], s[k + 1], sep)
        BY <3>1, Zenon DEF Split
      <4> QED BY <3>1, <4>1
    <3>4. /\ s[k + 1] \in T
          /\ h[n] \in SomePieces(T, sep) /\ h[k] \in SomePieces(T, sep)
      BY <1>1, <1>2, <3>1
    <3> QED BY <3>2, <3>3, <3>4, StepGrows, Zenon
  <2> QED BY <2>2, <2>3
<1>6. \A k \in Nat : k \in N
  <2> HIDE DEF N
  <2> QED BY <1>4, <1>5, UpFromZero
<1> QED BY <1>1, <1>6

\* SplitString reads the beginning of a text as it reads the text.
LEMMA SplitsAlike ==
  ASSUME NEW T, NEW s \in Seq(T), NEW sep, NEW h, Split(h, s, sep),
         NEW d \in Seq(T), StartsAs(d, s), NEW g, Split(g, d, sep)
  PROVE  \A k \in 0..Len(d) : g[k] = h[k]
<1> DEFINE N == {k \in Nat : k <= Len(d) => g[k] = h[k]}
<1>1. /\ Len(s) \in Nat /\ Len(d) \in Nat /\ Len(d) <= Len(s)
      /\ \A i \in 1..Len(d) : d[i] = s[i]
  BY DEF StartsAs
<1>2. 0 \in N
  BY Zenon DEF Split
<1>3. ASSUME NEW k \in Nat, k \in N PROVE k + 1 \in N
  <2>1. SUFFICES ASSUME k + 1 <= Len(d) PROVE g[k + 1] = h[k + 1]
    OBVIOUS
  <2>2. k <= Len(d) /\ k + 1 \in 1..Len(d) /\ k + 1 \in 1..Len(s) /\ (k + 1) - 1 = k
    BY <1>1, <2>1
  <2>3. g[k + 1] = SplitStep(g[(k + 1) - 1], d[k + 1], sep)
    BY <2>2, Zenon DEF Split
  <2>4. h[k + 1] = SplitStep(h[(k + 1) - 1], s[k + 1], sep)
    BY <2>2, Zenon DEF Split
  <2>5. g[k] = h[k] /\ d[k + 1] = s[k + 1]
    BY <1>1, <1>3, <2>2
  <2> QED BY <2>2, <2>3, <2>4, <2>5
<1>4. \A k \in Nat : k \in N
  <2> HIDE DEF N
  <2> QED BY <1>2, <1>3, UpFromZero
<1> QED BY <1>1, <1>4

\* The pieces of the beginning of a text grow to those of the text.
LEMMA CutSplits ==
  ASSUME NEW T, NEW s \in Seq(T), NEW sep, NEW d \in Seq(T), StartsAs(d, s)
  PROVE  Grows(SplitAll(d, sep), SplitAll(s, sep))
<1>1. PICK h : Split(h, s, sep) /\ SplitAll(s, sep) = h[Len(s)]
  BY AllUnfolds
<1>2. PICK g : Split(g, d, sep) /\ SplitAll(d, sep) = g[Len(d)]
  BY AllUnfolds
<1>3. Len(d) \in Nat /\ Len(s) \in Nat /\ Len(d) <= Len(s)
  BY DEF StartsAs
<1>4. g[Len(d)] = h[Len(d)]
  <2>1. Len(d) \in 0..Len(d)
    BY <1>3
  <2>2. \A k \in 0..Len(d) : g[k] = h[k]
    BY <1>1, <1>2, SplitsAlike
  <2> QED BY <2>1, <2>2, Zenon
<1>5. Grows(h[Len(d)], h[Len(s)])
  <2>1. Len(d) \in 0..Len(s) /\ Len(s) \in 0..Len(s)
    BY <1>3
  <2> QED BY <1>1, <1>3, <2>1, SplitGrows, Zenon
<1> QED BY <1>1, <1>2, <1>4, <1>5, Zenon

\* Trim leaves of the beginning of a trimmed text a beginning of it.
LEMMA TrimStarts ==
  ASSUME NEW T, NEW v \in Seq(T), Trimmed(v), NEW u \in Seq(T), StartsAs(u, v)
  PROVE  StartsAs(Trim(u), v)
<1> DEFINE kept == {i \in DOMAIN u : u[i] # " "}
<1>1. /\ Len(u) \in Nat /\ Len(v) \in Nat /\ DOMAIN u = 1..Len(u)
      /\ \A i \in 1..Len(u) : u[i] \in T
      /\ Len(u) <= Len(v) /\ \A i \in 1..Len(u) : u[i] = v[i]
  BY DEF StartsAs
<1>2. CASE kept = {}
  <2>1. Trim(u) = <<>>
    BY <1>2, Zenon DEF Trim
  <2>2. StartsAs(<<>>, v)
    BY <1>1 DEF StartsAs
  <2> QED BY <2>1, <2>2
<1>3. CASE kept # {}
  <2>1. Trim(u) = SubSeq(u, Min(kept), Max(kept))
    BY <1>3, Zenon DEF Trim
  <2>2. kept \in SUBSET (1..Len(u)) /\ kept \in SUBSET Nat
    <3>1. \A i \in kept : i \in 1..Len(u)
      BY <1>1
    <3>2. \A i \in 1..Len(u) : i \in Nat
      OBVIOUS
    <3> HIDE DEF kept
    <3> QED BY <3>1, <3>2
  <2>3. 1 \in kept
    <3>1. Len(u) >= 1
      <4> HIDE DEF kept
      <4>1. PICK i \in kept : TRUE
        BY <1>3
      <4>2. i \in 1..Len(u)
        BY <2>2
      <4> QED BY <1>1, <4>2
    <3>2. v # <<>>
      BY <1>1, <3>1
    <3>3. v[1] # " "
      BY <3>2, Zenon DEF Trimmed
    <3>4. 1 \in DOMAIN u /\ u[1] = v[1]
      BY <1>1, <3>1
    <3> QED BY <3>3, <3>4
  <2> HIDE DEF kept
  <2>4. Min(kept) \in kept /\ \A j \in kept : Min(kept) <= j
    BY <1>3, <2>2, MinOf
  <2>5. Max(kept) \in kept /\ \A j \in kept : Max(kept) >= j
    BY <1>1, <1>3, <2>2, MaxOf
  <2> DEFINE n == Max(kept)
  <2>6. Min(kept) = 1 /\ n \in 1..Len(u)
    <3>1. Min(kept) \in 1..Len(u) /\ Min(kept) <= 1
      BY <2>2, <2>3, <2>4
    <3>2. n \in 1..Len(u)
      BY <2>2, <2>5
    <3> QED BY <1>1, <3>1, <3>2
  <2> HIDE DEF n
  <2>7. Trim(u) = SubSeq(u, 1, n)
    BY <2>1, <2>6 DEF n
  <2>8. Len(SubSeq(u, 1, n)) = n /\ \A i \in 1..n : SubSeq(u, 1, n)[i] = u[i]
    BY <1>1, <2>6
  <2> DEFINE w == SubSeq(u, 1, n)
  <2> HIDE DEF w
  <2>9. Len(w) = n /\ \A i \in 1..n : w[i] = u[i]
    BY <2>8 DEF w
  <2>10. StartsAs(w, v)
    BY <1>1, <2>6, <2>9 DEF StartsAs
  <2> QED BY <2>7, <2>10 DEF w
<1> QED BY <1>2, <1>3

\* The beginning of what is written of a pair, if it is read as a pair, has
\* the same key and a beginning of the value.
LEMMA CutPair ==
  ASSUME NEW k \in Seq(Plain), NEW v \in Seq(Plain), Trimmed(k), Trimmed(v),
         NEW x \in Seq(Tokens \ {"&"}), StartsAs(x, (k \o <<"=">>) \o v), IsPair(x)
  PROVE  PairOf(x)[1] = k /\ StartsAs(PairOf(x)[2], v)
<1> DEFINE T == Tokens \ {"&"}
           p == (k \o <<"=">>) \o v
           h == Halves(x)
<1>1. /\ T \ {"="} = Plain /\ "=" \in T /\ x \in Seq(T)
      /\ k \in Seq(T \ {"="}) /\ v \in Seq(T \ {"="})
      /\ v \in Seq(T)
  <2>1. T \ {"="} = Plain /\ "=" \in T /\ Plain \subseteq T
    BY DEF Plain, Tokens
  <2> HIDE DEF T
  <2> QED BY <2>1 DEF T
<1>2. p \in Seq(T)
  BY PairSplits
<1> HIDE DEF T, p
<1>3. SplitAll(p, "=") = <<k, v>>
  <2>1. SplitAll(p, "=") = <<k>> \o SplitAll(v, "=")
    BY <1>1, AllJoined DEF p
  <2>2. SplitAll(v, "=") = <<v>>
    BY <1>1, AllPlain
  <2> QED BY <2>1, <2>2, TwoTokens
<1>4. SplitAll(x, "=") = h /\ Len(h) = 2
  <2>1. Len(h) = 2
    BY Zenon DEF IsPair
  <2>2. x # <<>>
    <3>1. ASSUME x = <<>> PROVE FALSE
      <4>1. h = <<>>
        BY <3>1, Zenon DEF Halves, SplitString
      <4>2. Len(<<>>) # 2
        OBVIOUS
      <4> QED BY <2>1, <4>1, <4>2, Zenon
    <3> QED BY <3>1
  <2> QED BY <2>1, <2>2, Zenon DEF SplitAll, Halves
<1>5. Grows(h, <<k, v>>)
  <2>1. StartsAs(x, p)
    BY Zenon DEF p
  <2>2. Grows(SplitAll(x, "="), SplitAll(p, "="))
    BY <1>1, <1>2, <2>1, CutSplits
  <2> QED BY <1>3, <1>4, <2>2, Zenon
<1>6. h \in Seq(Seq(T))
  <2>1. h \in Seq(Seq(T \ {"="}))
    BY <1>1, AllTyped DEF Halves
  <2>2. Seq(T \ {"="}) \subseteq Seq(T)
    OBVIOUS
  <2> HIDE DEF h
  <2> QED BY <2>1, <2>2, SeqMonotonic
<1> HIDE DEF h
<1>7. h[1] = k /\ StartsAs(h[2], v) /\ h[2] \in Seq(T)
  <2>1. <<k, v>>[1] = k /\ <<k, v>>[2] = v
    OBVIOUS
  <2>2. h[1] = <<k, v>>[1]
    <3>1. 1 \in 1..(Len(h) - 1)
      BY <1>4
    <3> QED BY <1>5, <3>1, Zenon DEF Grows
  <2>3. StartsAs(h[2], <<k, v>>[2])
    BY <1>4, <1>5, Zenon DEF Grows
  <2>4. h[2] \in Seq(T)
    <3> DEFINE W == Seq(T)
    <3>1. h \in Seq(W) /\ 2 \in 1..Len(h)
      BY <1>4, <1>6
    <3> HIDE DEF W
    <3>2. h[2] \in W
      BY <3>1, ElementOfSeq
    <3> QED BY <3>2 DEF W
  <2> QED BY <2>1, <2>2, <2>3, <2>4, Zenon
<1>8. Trim(h[1]) = k
  BY <1>7, TrimKeeps
<1>9. StartsAs(Trim(h[2]), v)
  BY <1>1, <1>7, TrimStarts
<1>10. PairOf(x) = <<Trim(h[1]), Trim(h[2])>>
  BY Zenon DEF PairOf, h
<1> DEFINE a == Trim(h[1])
           b == Trim(h[2])
<1>11. PairOf(x) = <<a, b>>
  BY <1>10
<1> HIDE DEF a, b
<1>12. PairOf(x)[1] = a /\ PairOf(x)[2] = b
  BY <1>11
<1> QED BY <1>8, <1>9, <1>12, Zenon DEF a, b

\* M has the pairs of m that come first in the order of r, the last value
\* possibly shortened.
HasFirst(M, m, n, r) ==
  \E l \in Nat :
    /\ \A i \in 1..n : i < l => r[i] \in DOMAIN M /\ M[r[i]] = m[r[i]]
    /\ \A k \in DOMAIN M :
         /\ StartsAs(M[k], m[k])
         /\ \E i \in 1..n : i <= l /\ r[i] = k

\* They are what is read of the beginning of the text of m.
LEMMA MapOfCut ==
  ASSUME NEW n \in Nat, NEW keys, NEW r, NEW m, Lists(r, n, keys), Clean(m, keys),
         NEW d \in Seq(Tokens), StartsAs(d, TextOf(r, m)),
         NEW M, M = StrPairAppendToMap(d)
  PROVE  HasFirst(M, m, n, r)
<1> DEFINE s == TextOf(r, m)
           x == SplitAll(d, "&")
           l == Len(x)
           W == Seq(Tokens \ {"&"})
           T(i) == TextOfPair(r, m, i)
<1>1. s \in Seq(Tokens)
  BY TextSplits
<1>2. /\ \A i \in 1..n : r[i] \in keys
      /\ \A i, j \in 1..n : r[i] = r[j] => i = j
      /\ \A i \in 1..n : r[i] \in Seq(Plain) /\ m[r[i]] \in Seq(Plain)
                         /\ Trimmed(r[i]) /\ Trimmed(m[r[i]])
  BY DEF Lists, Clean
<1>3. /\ x \in Seq(Seq(Tokens)) /\ l \in Nat /\ l >= 1
      /\ DOMAIN PairsOf(d) = {i \in 1..l : IsPair(x[i])}
      /\ \A i \in DOMAIN PairsOf(d) : PairsOf(d)[i] = PairOf(x[i])
  <2>1. /\ x \in Seq(Seq(Tokens)) /\ Len(x) >= 1
        /\ DOMAIN PairsOf(d) = {i \in 1..Len(x) : IsPair(x[i])}
        /\ \A i \in DOMAIN PairsOf(d) : PairsOf(d)[i] = PairOf(x[i])
    BY PairsOfPieces
  <2> HIDE DEF x
  <2> QED BY <2>1
<1>4. \A i \in 1..l : x[i] \in W
  <2>1. x \in Seq(W)
    BY AllTyped DEF SomePieces
  <2> HIDE DEF x, W
  <2> QED BY <2>1, ElementOfSeq
<1>5. /\ \A i \in DOMAIN PairsOf(d) : PairsOf(d)[i][1] \in DOMAIN M
      /\ \A k \in DOMAIN M :
           \E i \in DOMAIN PairsOf(d) :
             /\ PairsOf(d)[i] = <<k, M[k]>>
             /\ \A j \in DOMAIN PairsOf(d) : PairsOf(d)[j][1] = k => i <= j
  BY MapIs
<1>6. CASE n = 0
  <2>1. s = <<>>
    BY <1>6, TextSplits
  <2>2. d = <<>>
    <3>1. Len(d) <= Len(<<>>)
      BY <2>1, Zenon DEF StartsAs
    <3> QED BY <3>1
  <2>3. x = <<<<>>>>
    BY <2>2, Zenon DEF SplitAll
  <2>4. ~IsPair(<<>>)
    <3>1. SplitString(<<>>, "=") = <<>>
      BY Zenon DEF SplitString
    <3>2. Len(<<>>) # 2
      OBVIOUS
    <3> QED BY <3>1, <3>2, Zenon DEF IsPair, Halves
  <2>5. \A i \in 1..l : x[i] = <<>>
    BY <2>3
  <2> HIDE DEF x, l
  <2>6. DOMAIN PairsOf(d) = {}
    BY <1>3, <2>4, <2>5
  <2>7. DOMAIN M = {}
    BY <1>5, <2>6
  <2>8. 1..n = {}
    BY <1>6
  <2> QED BY <2>7, <2>8, 0 \in Nat DEF HasFirst
<1>7. CASE n # 0
  <2> DEFINE P == [i \in 1..n |-> T(i)]
  <2>1. SplitAll(s, "&") = P
    BY <1>7, TextSplits
  <2>2. P[l] = T(l) /\ Len(P) = n /\ \A i \in 1..n : P[i] = T(i)
    <3>1. Len(P) = n /\ \A i \in 1..n : P[i] = T(i)
      <4> HIDE DEF T
      <4> QED OBVIOUS
    <3>2. Grows(x, P)
      BY <1>1, <2>1, CutSplits
    <3>3. l \in 1..n
      BY <3>1, <3>2, Zenon DEF Grows
    <3> HIDE DEF P, T, l
    <3> QED BY <3>1, <3>3
  <2>3. /\ l \in 1..n
        /\ \A i \in 1..(l - 1) : x[i] = P[i]
        /\ StartsAs(x[l], P[l])
    <3>1. Grows(x, P)
      BY <1>1, <2>1, CutSplits
    <3> HIDE DEF P, x
    <3> QED BY <2>2, <3>1, Zenon DEF Grows, l
  <2> HIDE DEF P, x, l
  <2>4. /\ \A i \in 1..(l - 1) : i \in 1..n /\ x[i] = T(i)
        /\ StartsAs(x[l], T(l))
    <3>1. \A i \in 1..(l - 1) : i \in 1..n
      BY <2>3
    <3> HIDE DEF T
    <3> QED BY <2>2, <2>3, <3>1, Zenon
  <2>5. ASSUME NEW i \in 1..(l - 1)
        PROVE  i \in DOMAIN PairsOf(d) /\ PairsOf(d)[i] = <<r[i], m[r[i]]>>
    <3>1. i \in 1..n /\ i \in 1..l /\ x[i] = T(i)
      BY <1>3, <2>4, SMTT(20)
    <3>2. IsPair(T(i)) /\ PairOf(T(i)) = <<r[i], m[r[i]]>>
      BY <3>1, TextOfPairSplits
    <3> HIDE DEF T
    <3>3. i \in DOMAIN PairsOf(d)
      BY <1>3, <3>1, <3>2
    <3> QED BY <1>3, <3>1, <3>2, <3>3, Zenon
  <2>6. ASSUME l \in DOMAIN PairsOf(d)
        PROVE  PairsOf(d)[l][1] = r[l] /\ StartsAs(PairsOf(d)[l][2], m[r[l]])
    <3> DEFINE k == r[l]
               v == m[r[l]]
               y == x[l]
    <3>1. IsPair(y) /\ PairsOf(d)[l] = PairOf(y)
      BY <1>3, <2>6
    <3>2. T(l) = (k \o <<"=">>) \o v
      BY Zenon DEF TextOfPair
    <3>3. k \in Seq(Plain) /\ v \in Seq(Plain) /\ Trimmed(k) /\ Trimmed(v)
      BY <1>2, <2>3
    <3>4. y \in Seq(Tokens \ {"&"})
      BY <1>3, <1>4, <2>3, SMTT(20)
    <3>5. StartsAs(y, T(l))
      BY <2>4
    <3> HIDE DEF T, k, v, y
    <3>6. StartsAs(y, (k \o <<"=">>) \o v)
      BY <3>2, <3>5, Zenon
    <3>7. PairOf(y)[1] = k /\ StartsAs(PairOf(y)[2], v)
      BY <3>1, <3>3, <3>4, <3>6, CutPair
    <3> QED BY <3>1, <3>7, Zenon DEF k, v
  <2>7. ASSUME NEW k \in DOMAIN M
        PROVE  StartsAs(M[k], m[k]) /\ \E i \in 1..n : i <= l /\ r[i] = k
    <3>1. PICK i \in DOMAIN PairsOf(d) : PairsOf(d)[i] = <<k, M[k]>>
      BY <1>5
    <3>2. i \in 1..l /\ PairsOf(d)[i][1] = k /\ PairsOf(d)[i][2] = M[k]
      BY <1>3, <3>1
    <3>3. CASE i = l
      <4>1. r[l] = k /\ StartsAs(M[k], m[r[l]])
        BY <2>6, <3>2, <3>3
      <4>2. l \in 1..n /\ l <= l
        BY <2>3
      <4> QED BY <4>1, <4>2
    <3>4. CASE i # l
      <4>1. i \in 1..(l - 1)
        BY <1>3, <3>2, <3>4
      <4>2. <<k, M[k]>> = <<r[i], m[r[i]]>>
        BY <2>5, <3>1, <4>1
      <4>3. k = r[i] /\ M[k] = m[k]
        BY <4>2
      <4>4. i \in 1..n /\ i <= l
        BY <1>3, <2>4, <4>1
      <4>5. StartsAs(m[k], m[k])
        <5>1. Len(m[k]) \in Nat
          BY <1>2, <4>3, <4>4
        <5> QED BY <5>1 DEF StartsAs
      <4> QED BY <4>3, <4>4, <4>5
    <3> QED BY <3>3, <3>4
  <2>8. ASSUME NEW i \in 1..n, i < l
        PROVE  r[i] \in DOMAIN M /\ M[r[i]] = m[r[i]]
    <3>1. i \in 1..(l - 1)
      BY <1>3, <2>8
    <3>2. i \in DOMAIN PairsOf(d) /\ PairsOf(d)[i] = <<r[i], m[r[i]]>>
      BY <2>5, <3>1
    <3>3. PairsOf(d)[i][1] = r[i]
      BY <3>2
    <3>4. r[i] \in DOMAIN M
      BY <1>5, <3>2, <3>3
    <3>5. PICK j \in DOMAIN PairsOf(d) : PairsOf(d)[j] = <<r[i], M[r[i]]>>
      BY <1>5, <3>4
    <3>6. j \in 1..l /\ PairsOf(d)[j][1] = r[i]
      BY <1>3, <3>5
    <3>7. r[j] = r[i]
      <4>1. CASE j = l
        BY <2>6, <3>6, <4>1
      <4>2. CASE j # l
        <5>1. j \in 1..(l - 1)
          BY <1>3, <3>6, <4>2
        <5>2. PairsOf(d)[j] = <<r[j], m[r[j]]>>
          BY <2>5, <5>1
        <5> QED BY <3>6, <5>2
      <4> QED BY <4>1, <4>2
    <3>8. j \in 1..n
      BY <2>3, <3>6
    <3>9. j = i
      BY <1>2, <3>7, <3>8
    <3>10. <<r[i], m[r[i]]>> = <<r[i], M[r[i]]>>
      BY <3>2, <3>5, <3>9
    <3>11. M[r[i]] = m[r[i]]
      BY <3>10
    <3> QED BY <3>4, <3>11
  <2>9. l \in Nat
    BY <1>3
  <2> QED BY <2>7, <2>8, <2>9 DEF HasFirst
<1> QED BY <1>6, <1>7

\* A beginning, as the community modules say it.
LEMMA StartsIsPrefix ==
  ASSUME NEW T, NEW u \in Seq(T), NEW v \in Seq(T), StartsAs(u, v)
  PROVE  IsPrefix(u, v)
<1>1. /\ Len(u) \in Nat /\ Len(u) <= Len(u) /\ Len(u) <= Len(v)
      /\ \A j \in 1..Len(u) : u[j] = v[j]
  BY DEF StartsAs
<1>2. SubSeq(u, 1, Len(u)) = SubSeq(v, 1, Len(u))
  BY <1>1, SameBeginning
<1> QED BY <1>1, <1>2, Zenon DEF IsPrefix

\* A map that is given the pairs of m that come first in the order of the
\* keys, the last value possibly shortened.
FirstPairs(given, keys, m) ==
  /\ DOMAIN given \subseteq keys
  /\ \A k \in DOMAIN given :
       /\ IsPrefix(given[k], m[k])
       /\ given[k] # m[k] => \A o \in DOMAIN given : o = k \/ Before(o, k)
  /\ \A k \in keys \ DOMAIN given : \A o \in DOMAIN given : Before(o, k)

\* What is read of the beginning of the data of s.
LEMMA FirstPairsOfCut ==
  ASSUME NEW s \in Seq(Tokens), NEW d \in Seq(Tokens),
         StartsAs(d, InitCCmd(s).data)
  PROVE  FirstPairs(StrPairAppendToMap(d), DataKeysOf(s), StrPairAppendToMap(s))
<1> DEFINE keys == DataKeysOf(s)
           n == Cardinality(keys)
           r == InOrder(keys)
           m == StrPairAppendToMap(s)
           M == StrPairAppendToMap(d)
<1>1. n \in Nat /\ Lists(r, n, keys) /\ Clean(m, keys)
  BY KeysListed
<1>2. StartsAs(d, TextOf(r, m))
  BY DataIs, Zenon
<1>3. /\ DOMAIN m \subseteq Seq(Plain) /\ IsFiniteSet(DOMAIN m)
      /\ keys \in SUBSET (DOMAIN m)
  BY MapIs DEF DataKeysOf
<1>4. \A k \in DOMAIN M : M[k] \in Seq(Plain)
  BY MapIs
<1>5. M = StrPairAppendToMap(d)
  OBVIOUS
<1> HIDE DEF m, M
<1>6. \A i, j \in 1..n : i < j => Before(r[i], r[j])
  <2>1. keys \subseteq Seq(Plain) /\ IsFiniteSet(keys)
    BY <1>3, FS_Subset
  <2> HIDE DEF keys
  <2> QED BY <2>1, InOrderIs
<1> HIDE DEF keys, n, r
<1>7. PICK l \in Nat :
        /\ \A i \in 1..n : i < l => r[i] \in DOMAIN M /\ M[r[i]] = m[r[i]]
        /\ \A k \in DOMAIN M :
             /\ StartsAs(M[k], m[k])
             /\ \E i \in 1..n : i <= l /\ r[i] = k
  <2>1. HasFirst(M, m, n, r)
    BY <1>1, <1>2, <1>5, MapOfCut
  <2> QED BY <2>1, Zenon DEF HasFirst
<1>8. /\ \A i \in 1..n : r[i] \in keys
      /\ \A k \in keys : \E i \in 1..n : r[i] = k
      /\ \A k \in keys : m[k] \in Seq(Plain)
  BY <1>1 DEF Lists, Clean
<1>9. DOMAIN M \subseteq keys
  BY <1>7, <1>8
<1>10. ASSUME NEW k \in DOMAIN M
       PROVE  /\ IsPrefix(M[k], m[k])
              /\ M[k] # m[k] => \A o \in DOMAIN M : o = k \/ Before(o, k)
  <2>1. IsPrefix(M[k], m[k])
    <3>1. M[k] \in Seq(Plain) /\ m[k] \in Seq(Plain) /\ StartsAs(M[k], m[k])
      BY <1>4, <1>7, <1>8, <1>9
    <3> QED BY <3>1, StartsIsPrefix
  <2>2. ASSUME M[k] # m[k], NEW o \in DOMAIN M, o # k PROVE Before(o, k)
    <3>1. PICK i \in 1..n : i <= l /\ r[i] = k
      BY <1>7
    <3>2. PICK j \in 1..n : j <= l /\ r[j] = o
      BY <1>7
    <3>3. ~(i < l)
      BY <1>7, <2>2, <3>1
    <3>4. j # i
      BY <2>2, <3>1, <3>2
    <3>5. j < i
      BY <1>1, <3>1, <3>2, <3>3, <3>4
    <3> QED BY <1>6, <3>1, <3>2, <3>5
  <2> QED BY <2>1, <2>2
<1>11. ASSUME NEW k \in keys \ DOMAIN M, NEW o \in DOMAIN M PROVE Before(o, k)
  <2>1. PICK i \in 1..n : r[i] = k
    BY <1>8
  <2>2. PICK j \in 1..n : j <= l /\ r[j] = o
    BY <1>7
  <2>3. ~(i < l)
    BY <1>7, <1>11, <2>1
  <2>4. j # i
    BY <1>11, <2>1, <2>2
  <2>5. j < i
    BY <1>1, <2>1, <2>2, <2>3, <2>4
  <2> QED BY <1>6, <2>1, <2>2, <2>5
<1>12. FirstPairs(M, keys, m)
  BY <1>9, <1>10, <1>11, Zenon DEF FirstPairs
<1> QED BY <1>12 DEF keys, m, M

\* The same of two maps that agree on the keys, in which others may differ.
LEMMA FirstPairsAlike ==
  ASSUME NEW given, NEW keys, NEW m, FirstPairs(given, keys, m),
         NEW given2, DOMAIN given2 = DOMAIN given,
         \A k \in DOMAIN given : given2[k] = given[k],
         NEW m2, \A k \in keys : m2[k] = m[k]
  PROVE  FirstPairs(given2, keys, m2)
<1>1. DOMAIN given \subseteq keys
  BY DEF FirstPairs
<1>2. \A k \in DOMAIN given : given2[k] = given[k] /\ m2[k] = m[k]
  BY <1>1
<1> QED BY <1>1, <1>2, Zenon DEF FirstPairs

\* Two texts with the same data.
KeepsMap(t, d) ==
  /\ DataKeysOf(t) = DataKeysOf(d)
  /\ \A k \in DataKeysOf(t) : StrPairAppendToMap(t)[k] = StrPairAppendToMap(d)[k]

\* A text behind the fields of c has the data it has by itself.
LEMMA HopKeepsMap ==
  \A c : \A d \in Seq(Tokens) : Writable(c) => KeepsMap(HeadText(c) \o d, d)
<1> SUFFICES ASSUME NEW c, NEW d \in Seq(Tokens), Writable(c)
             PROVE  KeepsMap(HeadText(c) \o d, d)
  OBVIOUS
<1> QED BY HopKeeps DEF KeepsMap

\* What a service is given of the text s after ToString and InitCCmd.
LEMMA FirstPairsOfHop ==
  ASSUME NEW s \in Seq(Tokens), NEW c, Writable(c), c.data = InitCCmd(s).data,
         NEW t, t = CmdToString(c)
  PROVE  LET given == StrPairAppendToMap(InitCCmd(t).data)
         IN  /\ FirstPairs(given, DataKeysOf(s), StrPairAppendToMap(s))
             /\ Len(t) < MsgSize => DOMAIN given = DataKeysOf(s)
<1> DEFINE D == InitCCmd(s).data
           given == StrPairAppendToMap(InitCCmd(t).data)
           keys == DataKeysOf(s)
           m == StrPairAppendToMap(s)
<1>1. PICK d \in Seq(Tokens) :
        /\ t = HeadText(c) \o d
        /\ Len(t) < MsgSize => d = c.data
        /\ \E n \in 0..Len(c.data) : d = SubSeq(c.data, 1, n)
  BY ToStringIs
<1>2. t \in Seq(Tokens)
  BY ToStringIs
<1>3. D \in Seq(Tokens)
  BY DataTyped
<1> HIDE DEF D
<1>4. StartsAs(d, D)
  <2>1. PICK n \in 0..Len(D) : d = SubSeq(D, 1, n)
    BY <1>1 DEF D
  <2>2. Len(SubSeq(D, 1, n)) = n /\ \A i \in 1..n : SubSeq(D, 1, n)[i] = D[i]
    BY <1>3
  <2>3. Len(d) = n /\ \A i \in 1..n : d[i] = D[i]
    BY <2>1, <2>2
  <2> QED BY <1>3, <2>3 DEF StartsAs
<1> DEFINE M == StrPairAppendToMap(d)
<1>5. FirstPairs(M, keys, m)
  BY <1>4, FirstPairsOfCut DEF D
<1>6. /\ DataKeysOf(t) = DataKeysOf(d)
      /\ \A k \in DataKeysOf(t) : StrPairAppendToMap(t)[k] = M[k]
  <2>1. Writable(c) /\ d \in Seq(Tokens) /\ t = HeadText(c) \o d
    BY <1>1
  <2> HIDE DEF M
  <2>2. /\ DataKeysOf(t) = DataKeysOf(d)
        /\ \A k \in DataKeysOf(t) :
             StrPairAppendToMap(t)[k] = StrPairAppendToMap(d)[k]
    BY <2>1, HopKeepsMap DEF KeepsMap
  <2> QED BY <2>2, Zenon DEF M
<1>7. /\ DOMAIN given = DataKeysOf(t)
      /\ \A k \in DataKeysOf(t) : given[k] = StrPairAppendToMap(t)[k]
  BY <1>2, PairsSurvive
<1>8. DataKeysOf(d) = DOMAIN M
  <2>1. DOMAIN M \subseteq keys
    BY <1>5 DEF FirstPairs
  <2>2. \A k \in keys : \A f \in Range(Header) : k # <<f>>
    BY DEF DataKeysOf
  <2>3. DataKeysOf(d) = {k \in DOMAIN M : \A f \in Range(Header) : k # <<f>>}
    BY DEF DataKeysOf
  <2> HIDE DEF M, keys
  <2> QED BY <2>1, <2>2, <2>3
<1>9. ASSUME Len(t) < MsgSize PROVE DOMAIN given = keys
  <2>1. d = D
    BY <1>1, <1>9 DEF D
  <2>2. DOMAIN StrPairAppendToMap(D) = keys
    BY PairsSurvive DEF D
  <2> HIDE DEF given, keys
  <2> QED BY <1>6, <1>7, <1>8, <2>1, <2>2, Zenon
<1> HIDE DEF given, keys, m, M
<1>10. DOMAIN given = DOMAIN M /\ \A k \in DOMAIN M : given[k] = M[k]
  BY <1>6, <1>7, <1>8
<1>11. FirstPairs(given, keys, m)
  BY <1>5, <1>10, FirstPairsAlike
<1> QED BY <1>9, <1>11, Zenon DEF given, keys, m

-----------------------------------------------------------------------------
(* The client's text: its pieces are pairs to the code where they are to   *)
(* a reader.                                                               *)

\* What is put before the first of some texts is before what they make up.
LEMMA FlattenHead ==
  ASSUME NEW a \in Seq(Tokens), NEW n \in Nat, NEW q \in [1..n -> Seq(Tokens)],
         NEW p \in [1..(n + 1) -> Seq(Tokens)], p[1] = a,
         \A i \in 1..n : p[i + 1] = q[i]
  PROVE  FlattenSeq(p) = a \o FlattenSeq(q)
<1> DEFINE S == Seq(Tokens)
<1>1. n + 1 \in Nat /\ n + 1 # 0 /\ \A i \in 1..n : q[i] \in S
  OBVIOUS
<1>2. Len(p) = n + 1 /\ Len(q) = n
  <2> HIDE DEF S
  <2>1. p \in [1..(n + 1) -> S] /\ q \in [1..n -> S]
    BY DEF S
  <2> QED BY <1>1, <2>1, FunctionIsSeq
<1> HIDE DEF S
<1>3. PICK g : /\ FlattenSeq(p) = g[n + 1]
               /\ g[1] = p[1]
               /\ \A i \in 1..(n + 1) : i # 1 => g[i] = g[i - 1] \o p[i]
  BY <1>1, <1>2, FlattenUnfolds
<1>4. CASE n = 0
  <2>1. FlattenSeq(q) = q /\ q = <<>>
    <3>1. q = <<>>
      BY <1>4
    <3> QED BY <1>2, <1>4, <3>1, Zenon DEF FlattenSeq
  <2>2. g[n + 1] = a
    BY <1>3, <1>4
  <2>3. a \o <<>> = a
    BY ConcatEmptySeq
  <2> QED BY <1>3, <2>1, <2>2, <2>3, Zenon
<1>5. CASE n # 0
  <2>1. PICK f : /\ FlattenSeq(q) = f[n]
                 /\ f[1] = q[1]
                 /\ \A i \in 1..n : i # 1 => f[i] = f[i - 1] \o q[i]
    BY <1>2, <1>5, FlattenUnfolds
  <2> DEFINE N == {i \in Nat : i + 1 <= n =>
                     f[i + 1] \in S /\ g[(i + 1) + 1] = a \o f[i + 1]}
  <2>2. \A i \in 1..n : g[i + 1] = g[i] \o q[i]
    <3>1. ASSUME NEW i \in 1..n PROVE g[i + 1] = g[i] \o q[i]
      <4>1. i + 1 \in 1..(n + 1) /\ i + 1 # 1 /\ (i + 1) - 1 = i /\ p[i + 1] = q[i]
        OBVIOUS
      <4>2. g[i + 1] = g[(i + 1) - 1] \o p[i + 1]
        BY <1>3, <4>1, Zenon
      <4> QED BY <4>1, <4>2
    <3> QED BY <3>1
  <2>3. 0 \in N
    <3>1. 1 \in 1..n
      BY <1>5
    <3>2. f[1] \in S /\ g[1 + 1] = a \o f[1]
      BY <1>1, <1>3, <2>1, <2>2, <3>1
    <3> QED BY <3>2
  <2>4. ASSUME NEW i \in Nat, i \in N PROVE i + 1 \in N
    <3>1. SUFFICES ASSUME (i + 1) + 1 <= n
                   PROVE  /\ f[(i + 1) + 1] \in S
                          /\ g[((i + 1) + 1) + 1] = a \o f[(i + 1) + 1]
      OBVIOUS
    <3> DEFINE j == i + 1
    <3>2. /\ j \in Nat /\ j + 1 \in 1..n /\ j + 1 # 1 /\ (j + 1) - 1 = j
          /\ f[j] \in S /\ g[j + 1] = a \o f[j]
      BY <2>4, <3>1
    <3> HIDE DEF j
    <3>3. f[j + 1] = f[j] \o q[j + 1]
      <4>1. f[j + 1] = f[(j + 1) - 1] \o q[j + 1]
        BY <2>1, <3>2, Zenon
      <4> QED BY <3>2, <4>1
    <3>4. g[(j + 1) + 1] = g[j + 1] \o q[j + 1]
      BY <2>2, <3>2
    <3>5. q[j + 1] \in S /\ a \in S
      BY <1>1, <3>2 DEF S
    <3>6. f[j] \o q[j + 1] \in S
      BY <3>2, <3>5, TextsAssociate, Zenon DEF S
    <3>7. (a \o f[j]) \o q[j + 1] = a \o (f[j] \o q[j + 1])
      <4>1. \A x, y, z \in S : (x \o y) \o z = x \o (y \o z)
        BY TextsAssociate DEF S
      <4>2. a \in S /\ f[j] \in S /\ q[j + 1] \in S
        BY <3>2, <3>5
      <4> QED BY <4>1, <4>2, Zenon
    <3>8. f[j + 1] \in S /\ g[(j + 1) + 1] = a \o f[j + 1]
      BY <3>2, <3>3, <3>4, <3>6, <3>7, Zenon
    <3> QED BY <3>8 DEF j
  <2>5. \A i \in Nat : i \in N
    <3> HIDE DEF N
    <3> QED BY <2>3, <2>4, UpFromZero
  <2>6. g[n + 1] = a \o f[n]
    <3>1. n - 1 \in Nat /\ (n - 1) + 1 = n /\ n <= n
      BY <1>5
    <3>2. (n - 1) + 1 <= n => g[((n - 1) + 1) + 1] = a \o f[(n - 1) + 1]
      BY <2>5, <3>1
    <3> QED BY <3>1, <3>2
  <2> QED BY <1>3, <2>1, <2>6, Zenon
<1> QED BY <1>4, <1>5

\* The pieces that a client may write are texts without "&".
LEMMA PiecesTyped ==
  ASSUME NEW p \in Pieces
  PROVE  p \in Seq(Tokens \ {"&"})
<1>1. p \in Seq(STRING) /\ "&" \notin Range(p)
  BY CmdCodecAssumption
<1>2. Range(p) \subseteq Tokens
  BY Zenon DEF Tokens
<1>3. \A i \in 1..Len(p) : p[i] \in Tokens \ {"&"}
  BY <1>1, <1>2 DEF Range
<1> QED BY <1>1, <1>3

\* A client's request is a sequence of pieces.
LEMMA RequestTyped ==
  ASSUME NEW ps \in BoundedSeq(Pieces, MaxPieces)
  PROVE  \E n \in Nat : ps \in [1..n -> Pieces]
<1>1. PICK m \in 0..MaxPieces : ps \in [1..m -> Pieces]
  BY Zenon DEF BoundedSeq, SeqOf
<1>2. MaxPieces \in Nat
  BY CmdCodecAssumption, Zenon
<1> QED BY <1>1, <1>2

\* The test client's text splits into the command and the pieces.
LEMMA WrittenSplits ==
  ASSUME NEW cmd \in {"1", "2"}, NEW n \in Nat, NEW ps \in [1..n -> Pieces],
         Written(cmd, ps) \in Seq(Tokens), NEW x, x = SplitAll(Written(cmd, ps), "&")
  PROVE  /\ Len(x) = n + 1
         /\ x[1] = <<"cmd", "=", cmd>>
         /\ \A i \in 1..n : x[i + 1] = ps[i]
<1> DEFINE W == Seq(Tokens \ {"&"})
           S == Seq(Tokens)
           a == <<"cmd", "=", cmd>>
           q == [i \in 1..n |-> <<"&">> \o ps[i]]
           P == [i \in 1..(n + 1) |-> IF i = 1 THEN a ELSE ps[i - 1]]
           p == [i \in 1..(n + 1) |-> IF i = 1 THEN a ELSE <<"&">> \o ps[i - 1]]
<1>1. a \in W /\ a \in S /\ <<"&">> \in S /\ W \subseteq S
  <2>1. {"&", "=", "cmd"} \subseteq Tokens /\ cmd \in Tokens
    <3>1. cmd \in Numbers
      BY KnownNumbers
    <3> QED BY <3>1, HeaderNames DEF Tokens
  <2> QED BY <2>1
<1>2. /\ \A i \in 1..n : ps[i] \in W /\ <<"&">> \o ps[i] \in S
      /\ DOMAIN ps = 1..n
  <2>1. \A i \in 1..n : ps[i] \in W
    BY PiecesTyped
  <2> HIDE DEF W
  <2>2. \A i \in 1..n : ps[i] \in S
    BY <1>1, <2>1
  <2> QED BY <1>1, <2>1, <2>2, TextsAssociate, Zenon
<1>3. Written(cmd, ps) = a \o FlattenSeq(q)
  BY <1>2, Zenon DEF Written
<1>4. \A i \in 1..(n + 1) : i # 1 => i - 1 \in 1..n
  OBVIOUS
<1>5. /\ q \in [1..n -> S] /\ p \in [1..(n + 1) -> S] /\ P \in [1..(n + 1) -> W]
      /\ p[1] = a /\ P[1] = a
      /\ \A i \in 1..n : p[i + 1] = q[i] /\ P[i + 1] = ps[i]
      /\ \A i \in 2..(n + 1) : p[i] = <<"&">> \o P[i]
  <2> HIDE DEF S, W, a
  <2>1. q \in [1..n -> S]
    BY <1>2
  <2>2. /\ \A i \in 1..(n + 1) : p[i] = IF i = 1 THEN a ELSE <<"&">> \o ps[i - 1]
        /\ \A i \in 1..(n + 1) : P[i] = IF i = 1 THEN a ELSE ps[i - 1]
        /\ \A i \in 1..n : q[i] = <<"&">> \o ps[i]
    BY Zenon
  <2>3. p \in [1..(n + 1) -> S] /\ P \in [1..(n + 1) -> W]
    BY <1>1, <1>2, <1>4
  <2> HIDE DEF q, p, P
  <2>4. 1 \in 1..(n + 1)
    OBVIOUS
  <2>5. ASSUME NEW i \in 1..n PROVE p[i + 1] = q[i] /\ P[i + 1] = ps[i]
    <3>1. i + 1 \in 1..(n + 1) /\ i + 1 # 1 /\ (i + 1) - 1 = i
      OBVIOUS
    <3> QED BY <2>2, <3>1
  <2>6. ASSUME NEW i \in 2..(n + 1) PROVE p[i] = <<"&">> \o P[i]
    <3>1. i \in 1..(n + 1) /\ i # 1
      OBVIOUS
    <3> QED BY <2>2, <3>1, Zenon
  <2> QED BY <2>1, <2>2, <2>3, <2>4, <2>5, <2>6
<1> HIDE DEF q, p, P, a
<1>6. Written(cmd, ps) = FlattenSeq(p)
  BY <1>1, <1>3, <1>5, FlattenHead
<1>7. SplitAll(FlattenSeq(p), "&") = P
  <2>1. n + 1 \in Nat \ {0} /\ p[1] = P[1]
    BY <1>5
  <2> QED BY <1>5, <2>1, JoinedSplits
<1>8. x = P
  BY <1>6, <1>7
<1>9. Len(P) = n + 1
  <2> HIDE DEF W
  <2>1. n + 1 \in Nat
    OBVIOUS
  <2> QED BY <1>5, <2>1, FunctionIsSeq
<1> QED BY <1>5, <1>8, <1>9 DEF a

\* e is the first separator of p, u is what stands before it and w what
\* stands behind it.
FirstAt(p, sep, e) ==
  e \in 1..Len(p) /\ p[e] = sep /\ \A i \in 1..(e - 1) : p[i] # sep
Parts(T, sep, p, e, u, w) ==
  /\ u \in Seq(T \ {sep}) /\ w \in Seq(T)
  /\ Len(w) = Len(p) - e /\ \A i \in 1..Len(w) : w[i] = p[e + i]
  /\ SplitAll(p, sep) = <<u>> \o SplitAll(w, sep)

\* A text splits at its first separator.
LEMMA SplitsAtFirst ==
  ASSUME NEW T, NEW sep \in T, NEW p \in Seq(T), NEW e, FirstAt(p, sep, e)
  PROVE  Parts(T, sep, p, e, SubSeq(p, 1, e - 1), SubSeq(p, e + 1, Len(p)))
<1> DEFINE u == SubSeq(p, 1, e - 1)
           w == SubSeq(p, e + 1, Len(p))
<1>0. /\ e \in 1..Len(p) /\ p[e] = sep
      /\ \A i \in 1..(e - 1) : p[i] # sep
      /\ u = SubSeq(p, 1, e - 1) /\ w = SubSeq(p, e + 1, Len(p))
  BY Zenon DEF FirstAt
<1> HIDE DEF u, w
<1>1. /\ Len(p) \in Nat /\ e \in Nat /\ e >= 1 /\ e <= Len(p)
      /\ \A i \in 1..Len(p) : p[i] \in T
  BY <1>0
<1>2. /\ u \in Seq(T \ {sep}) /\ Len(u) = e - 1
      /\ \A i \in 1..(e - 1) : u[i] = p[i]
  <2>1. \A i \in 1..(e - 1) : p[i] \in T \ {sep}
    BY <1>0, <1>1
  <2> DEFINE X == T \ {sep}
  <2> HIDE DEF X
  <2>2. \A i \in 1..(e - 1) : p[i] \in X
    BY <2>1 DEF X
  <2>3. /\ SubSeq(p, 1, e - 1) \in Seq(X)
        /\ Len(SubSeq(p, 1, e - 1)) = IF 1 <= e - 1 THEN e - 1 - 1 + 1 ELSE 0
        /\ \A i \in 1..(e - 1 - 1 + 1) : SubSeq(p, 1, e - 1)[i] = p[1 + i - 1]
    BY <1>1, <2>2, SubSeqProperties
  <2> QED BY <1>0, <1>1, <2>3 DEF X
<1>3. /\ w \in Seq(T) /\ Len(w) = Len(p) - e
      /\ \A i \in 1..(Len(p) - e) : w[i] = p[e + i]
  <2> DEFINE m == Len(p)
             v == SubSeq(p, e + 1, m)
  <2> HIDE DEF m
  <2>1. m \in Nat /\ m = Len(p)
    BY <1>1 DEF m
  <2>2. \A i \in (e + 1)..m : p[i] \in T
    BY <1>1, <2>1
  <2>3. /\ v \in Seq(T)
        /\ Len(v) = IF e + 1 <= m THEN m - (e + 1) + 1 ELSE 0
        /\ \A i \in 1..(m - (e + 1) + 1) : v[i] = p[e + 1 + i - 1]
    BY <1>1, <2>1, <2>2, SubSeqProperties
  <2>4. w = v
    BY <1>0, <2>1
  <2> HIDE DEF v
  <2>5. Len(w) = m - e /\ \A i \in 1..(m - e) : w[i] = p[e + i]
    BY <1>1, <2>1, <2>3, <2>4
  <2> QED BY <2>1, <2>3, <2>4, <2>5
<1>4. p = (u \o <<sep>>) \o w
  <2> DEFINE a == <<sep>>
             y == u \o a
             z == y \o w
  <2>1. a \in Seq(T) /\ Len(a) = 1 /\ a[1] = sep
    OBVIOUS
  <2>2. u \in Seq(T)
    BY <1>2
  <2> HIDE DEF a
  <2>3. /\ y \in Seq(T) /\ Len(y) = Len(u) + Len(a)
        /\ \A i \in 1..(Len(u) + Len(a)) :
             y[i] = IF i <= Len(u) THEN u[i] ELSE a[i - Len(u)]
    BY <2>1, <2>2, ConcatProperties
  <2>4. /\ Len(y) = e
        /\ \A i \in 1..e : y[i] = p[i]
    <3> HIDE DEF y
    <3>1. Len(y) = e /\ \A i \in 1..e : y[i] = IF i <= e - 1 THEN u[i] ELSE a[i - (e - 1)]
      BY <1>1, <1>2, <2>1, <2>3
    <3>2. ASSUME NEW i \in 1..e PROVE y[i] = p[i]
      <4>1. CASE i <= e - 1
        BY <1>1, <1>2, <3>1, <4>1
      <4>2. CASE ~(i <= e - 1)
        <5>1. i = e /\ i - (e - 1) = 1
          BY <1>1, <4>2
        <5> QED BY <1>0, <2>1, <3>1, <4>2, <5>1
      <4> QED BY <4>1, <4>2
    <3> QED BY <3>1, <3>2
  <2> HIDE DEF y
  <2>5. /\ z \in Seq(T) /\ Len(z) = Len(y) + Len(w)
        /\ \A i \in 1..(Len(y) + Len(w)) :
             z[i] = IF i <= Len(y) THEN y[i] ELSE w[i - Len(y)]
    <3>1. y \in Seq(T) /\ w \in Seq(T)
      BY <1>3, <2>3
    <3> QED BY <3>1, ConcatProperties
  <2> HIDE DEF z
  <2>6. Len(z) = Len(p)
    BY <1>1, <1>3, <2>4, <2>5
  <2>7. ASSUME NEW i \in 1..Len(p) PROVE z[i] = p[i]
    <3>1. z[i] = IF i <= e THEN y[i] ELSE w[i - e]
      BY <2>4, <2>5, <2>6
    <3>2. CASE i <= e
      BY <1>1, <2>4, <3>1, <3>2
    <3>3. CASE ~(i <= e)
      <4>1. i - e \in 1..(Len(p) - e) /\ e + (i - e) = i
        BY <1>1, <3>3
      <4> QED BY <1>3, <3>1, <3>3, <4>1
    <3> QED BY <3>2, <3>3
  <2>8. z = p
    BY <2>5, <2>6, <2>7, SeqEqual
  <2> QED BY <2>8 DEF z, y, a
<1>5. SplitAll((u \o <<sep>>) \o w, sep) = <<u>> \o SplitAll(w, sep)
  BY <1>2, <1>3, AllJoined
<1>6. Parts(T, sep, p, e, u, w)
  BY <1>2, <1>3, <1>4, <1>5, Zenon DEF Parts
<1> QED BY <1>6 DEF u, w

\* How many pieces a text has: one without separators, at least two with.
LEMMA SplitsOften ==
  ASSUME NEW T, NEW sep \in T, NEW w \in Seq(T), NEW j \in 1..Len(w), w[j] = sep
  PROVE  Len(SplitAll(w, sep)) \in Nat /\ Len(SplitAll(w, sep)) >= 2
<1> DEFINE D == {i \in Nat : i \in 1..Len(w) /\ w[i] = sep}
           W == Seq(T \ {sep})
<1>1. j \in D
  OBVIOUS
<1>2. PICK e \in D : \A i \in D : e <= i
  <2>1. D \in SUBSET Nat /\ D # {}
    BY <1>1
  <2> HIDE DEF D
  <2> QED BY <2>1, LeastOf
<1>3. /\ e \in 1..Len(w) /\ w[e] = sep
      /\ \A i \in 1..(e - 1) : w[i] # sep
  <2>1. e \in Nat /\ e \in 1..Len(w) /\ w[e] = sep
    OBVIOUS
  <2>2. ASSUME NEW i \in 1..(e - 1), w[i] = sep PROVE FALSE
    <3>1. i \in D /\ ~(e <= i)
      BY <2>1, <2>2
    <3> QED BY <1>2, <3>1
  <2> QED BY <2>1, <2>2
<1> DEFINE u == SubSeq(w, 1, e - 1)
           v == SubSeq(w, e + 1, Len(w))
           x == SplitAll(v, sep)
<1>4. u \in W /\ v \in Seq(T) /\ SplitAll(w, sep) = <<u>> \o x
  <2> HIDE DEF D
  <2>1. FirstAt(w, sep, e)
    BY <1>3, Zenon DEF FirstAt
  <2>2. Parts(T, sep, w, e, u, v)
    BY <2>1, SplitsAtFirst, Zenon
  <2> QED BY <2>2, Zenon DEF Parts
<1> HIDE DEF u, v
<1>5. x \in Seq(W) /\ Len(x) >= 1 /\ Len(x) \in Nat
  <2>1. x \in SomePieces(T, sep)
    BY <1>4, AllTyped
  <2> HIDE DEF x
  <2> QED BY <2>1 DEF SomePieces
<1> HIDE DEF W, x
<1>6. Len(<<u>> \o x) = 1 + Len(x)
  <2>1. <<u>> \in Seq(W) /\ Len(<<u>>) = 1
    BY <1>4
  <2> DEFINE a == <<u>>
  <2> HIDE DEF a
  <2>2. Len(a \o x) = Len(a) + Len(x)
    BY <1>5, <2>1, ConcatProperties DEF a
  <2> QED BY <2>1, <2>2 DEF a
<1> QED BY <1>4, <1>5, <1>6

\* A piece is a pair to the code if it has one "=", and the same pair.
LEMMA PieceIsPair ==
  ASSUME NEW p \in Seq(Tokens \ {"&"})
  PROVE  /\ IsPair(p) <=> Cardinality(EqualSigns(p)) = 1
         /\ IsPair(p) => PairOf(p) = <<KeyOf(p), ValueOf(p)>>
<1> DEFINE T == Tokens \ {"&"}
           E == EqualSigns(p)
<1>1. "=" \in T /\ p \in Seq(T)
  BY DEF Tokens
<1> HIDE DEF T
<1>2. /\ Len(p) \in Nat /\ DOMAIN p = 1..Len(p)
      /\ \A i \in 1..Len(p) : p[i] \in T
  BY <1>1
<1>3. /\ E = {i \in 1..Len(p) : p[i] = "="}
      /\ E \in SUBSET (1..Len(p)) /\ E \in SUBSET Nat
  <2>1. E = {i \in 1..Len(p) : p[i] = "="}
    BY <1>2 DEF EqualSigns
  <2> HIDE DEF E
  <2> QED BY <2>1
<1>4. IsFiniteSet(E)
  <2>1. IsFiniteSet(1..Len(p))
    BY <1>2, FS_Interval
  <2> HIDE DEF E
  <2> QED BY <1>3, <2>1, FS_Subset
<1> HIDE DEF E
<1>5. CASE E = {}
  <2>1. \A i \in 1..Len(p) : p[i] \in T \ {"="}
    BY <1>2, <1>3, <1>5
  <2>2. p \in Seq(T \ {"="})
    BY <1>1, <2>1
  <2>3. SplitAll(p, "=") = <<p>>
    BY <1>1, <2>2, AllPlain
  <2>4. ~IsPair(p)
    <3>1. CASE p = <<>>
      <4>1. Halves(p) = <<>>
        BY <3>1, Zenon DEF Halves, SplitString
      <4>2. Len(<<>>) # 2
        OBVIOUS
      <4> QED BY <4>1, <4>2, Zenon DEF IsPair
    <3>2. CASE p # <<>>
      <4>1. Halves(p) = <<p>>
        BY <2>3, <3>2, Zenon DEF Halves, SplitAll
      <4>2. Len(<<p>>) # 2
        OBVIOUS
      <4> QED BY <4>1, <4>2, Zenon DEF IsPair
    <3> QED BY <3>1, <3>2
  <2>5. Cardinality(E) # 1
    <3>1. Cardinality(E) = 0
      BY <1>5, FS_EmptySet
    <3> QED BY <3>1
  <2> QED BY <2>4, <2>5 DEF E
<1>6. CASE E # {}
  <2> DEFINE e == Min(E)
             u == SubSeq(p, 1, e - 1)
             w == SubSeq(p, e + 1, Len(p))
             x == SplitAll(w, "=")
  <2>1. e \in E /\ \A i \in E : e <= i
    BY <1>3, <1>6, MinOf
  <2> HIDE DEF e
  <2>2. /\ e \in 1..Len(p) /\ p[e] = "="
        /\ \A i \in 1..(e - 1) : p[i] # "="
    <3>1. e \in 1..Len(p) /\ p[e] = "="
      BY <1>3, <2>1
    <3>2. ASSUME NEW i \in 1..(e - 1), p[i] = "=" PROVE FALSE
      <4>1. i \in 1..Len(p) /\ ~(e <= i)
        BY <1>2, <3>1
      <4> QED BY <1>3, <2>1, <3>2, <4>1
    <3> QED BY <3>1, <3>2
  <2>3. /\ u \in Seq(T \ {"="}) /\ w \in Seq(T)
        /\ Len(w) = Len(p) - e /\ \A i \in 1..Len(w) : w[i] = p[e + i]
        /\ SplitAll(p, "=") = <<u>> \o x
    <3>1. FirstAt(p, "=", e)
      BY <2>2, Zenon DEF FirstAt
    <3>2. Parts(T, "=", p, e, u, w)
      BY <1>1, <3>1, SplitsAtFirst, Zenon
    <3> QED BY <3>2, Zenon DEF Parts
  <2>4. KeyOf(p) = Trim(u) /\ ValueOf(p) = Trim(w)
    BY Zenon DEF KeyOf, ValueOf, e, E
  <2> HIDE DEF u, w
  <2>5. Halves(p) = <<u>> \o x
    <3>1. p # <<>>
      BY <1>2, <2>2
    <3> QED BY <2>3, <3>1, Zenon DEF Halves, SplitAll
  <2>6. CASE \A i \in 1..Len(w) : w[i] # "="
    <3>1. x = <<w>>
      <4>1. \A i \in 1..Len(w) : w[i] \in T \ {"="}
        BY <2>3, <2>6
      <4>2. w \in Seq(T \ {"="})
        BY <2>3, <4>1
      <4> QED BY <1>1, <4>2, AllPlain
    <3>2. Halves(p) = <<u, w>>
      BY <2>5, <3>1, TwoTokens
    <3>3. Len(<<u, w>>) = 2 /\ <<u, w>>[1] = u /\ <<u, w>>[2] = w
      OBVIOUS
    <3>4. IsPair(p) /\ PairOf(p) = <<Trim(u), Trim(w)>>
      BY <3>2, <3>3, Zenon DEF IsPair, PairOf
    <3>5. E = {e}
      <4>1. ASSUME NEW i \in E PROVE i = e
        <5>1. i \in 1..Len(p) /\ e <= i /\ p[i] = "=" /\ e \in 1..Len(p)
          BY <1>3, <2>1, <2>2
        <5>2. i # e => i - e \in 1..Len(w) /\ e + (i - e) = i
          BY <1>2, <2>3, <5>1
        <5> QED BY <2>3, <2>6, <5>1, <5>2
      <4> QED BY <2>1, <4>1
    <3>6. Cardinality(E) = 1
      BY <3>5, FS_Singleton
    <3> QED BY <2>4, <3>4, <3>6, Zenon DEF E
  <2>7. CASE \E i \in 1..Len(w) : w[i] = "="
    <3>1. PICK i \in 1..Len(w) : w[i] = "="
      BY <2>7
    <3>2. Len(x) \in Nat /\ Len(x) >= 2
      BY <1>1, <2>3, <3>1, SplitsOften
    <3>3. ~IsPair(p)
      <4> DEFINE W == Seq(T \ {"="})
      <4>1. x \in Seq(W)
        BY <2>3, AllTyped DEF SomePieces
      <4> HIDE DEF W, x
      <4>2. <<u>> \in Seq(W) /\ Len(<<u>>) = 1
        BY <2>3 DEF W
      <4> DEFINE a == <<u>>
      <4> HIDE DEF a
      <4>3. Len(a \o x) = Len(a) + Len(x)
        BY <4>1, <4>2, ConcatProperties DEF a
      <4>4. Len(a \o x) # 2
        BY <3>2, <4>2, <4>3 DEF a
      <4> QED BY <2>5, <4>4, Zenon DEF IsPair, a
    <3>4. Cardinality(E) # 1
      <4>1. e + i \in E /\ e + i # e
        <5>1. e + i \in 1..Len(p) /\ e + i # e
          BY <1>2, <2>2, <2>3
        <5>2. p[e + i] = "="
          BY <2>3, <3>1
        <5> QED BY <1>3, <5>1, <5>2
      <4>2. ASSUME Cardinality(E) = 1 PROVE FALSE
        <5>1. \E y : E = {y}
          BY <1>4, <4>2, FS_Singleton
        <5> QED BY <2>1, <4>1, <5>1
      <4> QED BY <4>2
    <3> QED BY <3>3, <3>4 DEF E
  <2> QED BY <2>6, <2>7
<1> QED BY <1>5, <1>6

\* strPairAppendToMap makes of the client's text the keys and the first
\* values that a reader finds in its pieces, besides the command.
LEMMA ClientMap ==
  ASSUME NEW cmd \in {"1", "2"}, pieces \in BoundedSeq(Pieces, MaxPieces),
         NEW s, s = Written(cmd, pieces)
  PROVE  /\ s \in Seq(Tokens)
         /\ \A k : k # <<"cmd">> =>
              /\ k \in DOMAIN StrPairAppendToMap(s) <=> k \in ClientKeys
              /\ k \in ClientKeys => StrPairAppendToMap(s)[k] = FirstValue(k)
<1> DEFINE m == StrPairAppendToMap(s)
           ps == PairsOf(s)
           x == SplitAll(s, "&")
<1>1. s \in Seq(Tokens)
  BY WrittenTyped
<1>2. PICK n \in Nat : pieces \in [1..n -> Pieces]
  BY RequestTyped
<1>3. /\ Len(x) = n + 1
      /\ x[1] = <<"cmd", "=", cmd>>
      /\ \A i \in 1..n : x[i + 1] = pieces[i]
  BY <1>1, <1>2, WrittenSplits
<1>4. /\ DOMAIN ps = {i \in 1..(n + 1) : IsPair(x[i])}
      /\ \A i \in DOMAIN ps : ps[i] = PairOf(x[i])
  <2>1. /\ DOMAIN ps = {i \in 1..Len(x) : IsPair(x[i])}
        /\ \A i \in DOMAIN ps : ps[i] = PairOf(x[i])
    BY <1>1, PairsOfPieces
  <2> HIDE DEF x, ps
  <2> QED BY <1>3, <2>1
<1>5. /\ \A i \in DOMAIN ps : ps[i][1] \in DOMAIN m
      /\ \A k \in DOMAIN m :
           \E i \in DOMAIN ps : /\ ps[i] = <<k, m[k]>>
                                /\ \A j \in DOMAIN ps : ps[j][1] = k => i <= j
  BY <1>1, MapIs, SMTT(60)
<1>7. 1 \in DOMAIN ps => ps[1][1] = <<"cmd">>
  <2>1. PairOf(x[1]) = <<<<"cmd">>, <<cmd>>>>
    <3>1. /\ cmd \in Tokens /\ cmd # "=" /\ cmd # " "
          /\ "cmd" \in Tokens /\ "cmd" # "=" /\ "cmd" # " "
      <4>1. cmd \in Numbers
        BY KnownNumbers
      <4> QED BY <4>1, HeaderNames DEF Tokens
    <3>2. SplitString(<<"cmd", "=", cmd>>, "=") = <<<<"cmd">>, <<cmd>>>>
      BY <3>1, FieldSplits
    <3>3. Trim(<<"cmd">>) = <<"cmd">> /\ Trim(<<cmd>>) = <<cmd>>
      BY <3>1, TrimOne
    <3>4. <<<<"cmd">>, <<cmd>>>>[1] = <<"cmd">> /\ <<<<"cmd">>, <<cmd>>>>[2] = <<cmd>>
      OBVIOUS
    <3> QED BY <1>3, <3>2, <3>3, <3>4, Zenon DEF PairOf, Halves
  <2> DEFINE a == <<"cmd">>
             b == <<cmd>>
  <2>2. PairOf(x[1]) = <<a, b>>
    BY <2>1
  <2> HIDE DEF a, b, ps, x
  <2>3. 1 \in DOMAIN ps => ps[1] = <<a, b>>
    BY <1>4, <2>2
  <2> QED BY <2>3 DEF a
<1> HIDE DEF m, ps, x
<1>9. ASSUME NEW i \in 1..n
      PROVE  /\ i + 1 \in DOMAIN ps <=> Sound(i)
             /\ Sound(i) => ps[i + 1] = <<KeyOf(pieces[i]), ValueOf(pieces[i])>>
  <2>1. pieces[i] \in Pieces
    BY <1>2
  <2>2. pieces[i] \in Seq(Tokens \ {"&"})
    BY <2>1, PiecesTyped
  <2>3. /\ IsPair(pieces[i]) <=> Cardinality(EqualSigns(pieces[i])) = 1
        /\ IsPair(pieces[i]) =>
             PairOf(pieces[i]) = <<KeyOf(pieces[i]), ValueOf(pieces[i])>>
    BY <2>2, PieceIsPair
  <2>4. i + 1 \in 1..(n + 1) /\ x[i + 1] = pieces[i]
    BY <1>3
  <2>5. i + 1 \in DOMAIN ps <=> IsPair(pieces[i])
    BY <1>4, <2>4
  <2>6. i + 1 \in DOMAIN ps => ps[i + 1] = PairOf(pieces[i])
    BY <1>4, <2>4
  <2> QED BY <2>3, <2>5, <2>6, Zenon DEF Sound
<1>10. DOMAIN pieces = 1..n
  BY <1>2
<1> DEFINE At(k) == {i \in DOMAIN pieces : Sound(i) /\ KeyOf(pieces[i]) = k}
<1>11. /\ ClientKeys = {KeyOf(pieces[i]) : i \in {j \in 1..n : Sound(j)}}
        /\ \A k : FirstValue(k) = ValueOf(pieces[Min(At(k))])
  BY <1>10, Zenon DEF ClientKeys, FirstValue
<1>12. ASSUME NEW k \in DOMAIN m, k # <<"cmd">>
       PROVE  k \in ClientKeys /\ m[k] = FirstValue(k)
  <2>2. PICK i \in DOMAIN ps : /\ ps[i] = <<k, m[k]>>
                               /\ \A j \in DOMAIN ps : ps[j][1] = k => i <= j
    BY <1>5
  <2>3. ps[i][1] = k
    BY <2>2
  <2>4. i # 1 /\ i \in 1..(n + 1)
    BY <1>4, <1>7, <1>12, <2>3
  <2>5. PICK j \in 1..n : i = j + 1
    <3>1. i - 1 \in 1..n /\ i = (i - 1) + 1
      BY <2>4
    <3> QED BY <3>1
  <2>6. Sound(j) /\ <<KeyOf(pieces[j]), ValueOf(pieces[j])>> = <<k, m[k]>>
    BY <1>9, <2>2, <2>5
  <2>7. KeyOf(pieces[j]) = k /\ ValueOf(pieces[j]) = m[k]
    BY <2>6
  <2>8. k \in ClientKeys
    BY <1>11, <2>6, <2>7
  <2>9. \A o \in At(k) : j <= o
    <3>1. ASSUME NEW o \in At(k) PROVE j <= o
      <4>1. o \in 1..n /\ Sound(o) /\ KeyOf(pieces[o]) = k
        BY <1>10
      <4>2. o + 1 \in DOMAIN ps /\ ps[o + 1] = <<KeyOf(pieces[o]), ValueOf(pieces[o])>>
        BY <1>9, <4>1
      <4>3. ps[o + 1][1] = k
        BY <4>1, <4>2
      <4>4. j + 1 <= o + 1
        BY <2>2, <2>5, <4>2, <4>3
      <4> QED BY <4>1, <4>4
    <3> QED BY <3>1
  <2>10. j \in At(k)
    BY <1>10, <2>6, <2>7
  <2>11. At(k) \in SUBSET Nat
    <3>1. \A o \in At(k) : o \in 1..n
      BY <1>10
    <3>2. \A o \in 1..n : o \in Nat
      OBVIOUS
    <3> HIDE DEF At
    <3> QED BY <3>1, <3>2
  <2> HIDE DEF At
  <2>12. Min(At(k)) \in At(k) /\ Min(At(k)) <= j
    BY <2>10, <2>11, MinOf
  <2>13. Min(At(k)) = j
    <3>1. j <= Min(At(k)) /\ Min(At(k)) \in Nat
      BY <2>9, <2>11, <2>12
    <3> QED BY <2>12, <3>1
  <2>14. m[k] = FirstValue(k)
    BY <1>11, <2>7, <2>13, Zenon
  <2> QED BY <2>8, <2>14
<1>13. ASSUME NEW k \in ClientKeys PROVE k \in DOMAIN m
  <2>1. PICK i \in 1..n : Sound(i) /\ k = KeyOf(pieces[i])
    BY <1>11
  <2>2. i + 1 \in DOMAIN ps /\ ps[i + 1] = <<KeyOf(pieces[i]), ValueOf(pieces[i])>>
    BY <1>9, <2>1
  <2>3. ps[i + 1][1] = k
    BY <2>1, <2>2
  <2> QED BY <1>5, <2>2, <2>3
<1> QED BY <1>1, <1>12, <1>13, Zenon DEF m

\* The data of the client's request are the pairs that are no fields.
LEMMA ClientPairs ==
  ASSUME NEW cmd \in {"1", "2"}, pieces \in BoundedSeq(Pieces, MaxPieces),
         NEW s, s = Written(cmd, pieces)
  PROVE  /\ s \in Seq(Tokens)
         /\ DataKeysOf(s) = DataKeys
         /\ \A k \in DataKeys : StrPairAppendToMap(s)[k] = FirstValue(k)
<1> DEFINE m == StrPairAppendToMap(s)
<1>1. s \in Seq(Tokens)
      /\ \A k : k # <<"cmd">> => /\ k \in DOMAIN m <=> k \in ClientKeys
                                 /\ k \in ClientKeys => m[k] = FirstValue(k)
  BY ClientMap
<1>2. "cmd" \in Range(Header)
  BY HeaderNames
<1>3. DataKeysOf(s) = {k \in DOMAIN m : \A f \in Range(Header) : k # <<f>>}
  BY DEF DataKeysOf
<1>4. DataKeys = {k \in ClientKeys : \A f \in Range(Header) : k # <<f>>}
  BY DEF DataKeys
<1> HIDE DEF m
<1>5. DataKeysOf(s) = DataKeys
  BY <1>1, <1>2, <1>3, <1>4
<1>6. \A k \in DataKeys : m[k] = FirstValue(k)
  BY <1>1, <1>2, <1>4
<1> QED BY <1>1, <1>5, <1>6 DEF m

\* The ret that the client's request has.
LEMMA ClientsRet ==
  ASSUME NEW cmd \in {"1", "2"}, pieces \in BoundedSeq(Pieces, MaxPieces),
         NEW s, s = Written(cmd, pieces)
  PROVE  InitCCmd(s).head["ret"] = ClientRet
<1> DEFINE m == StrPairAppendToMap(s)
           k == <<"ret">>
<1>1. k # <<"cmd">>
  <2>1. <<"ret">>[1] = "ret" /\ <<"cmd">>[1] = "cmd"
    OBVIOUS
  <2> QED BY <2>1
<1>2. /\ k \in DOMAIN m <=> k \in ClientKeys
      /\ k \in ClientKeys => m[k] = FirstValue(k)
  BY <1>1, ClientMap
<1>3. "ret" \in Range(Header)
  BY HeaderNames
<1>4. InitCCmd(s).head["ret"] = IF "ret" \in FoundIn(s) THEN FieldOf("ret", m[k])
                                ELSE FreshCmd.head["ret"]
  BY <1>3, InitIs
<1>5. "ret" \in FoundIn(s) <=> k \in DOMAIN m
  BY <1>3 DEF FoundIn
<1>6. FreshCmd.head["ret"] = "0"
  <2>1. "ret" # "cliIp"
    OBVIOUS
  <2> QED BY <1>3, <2>1, FreshFields
<1> HIDE DEF m
<1>7. ClientRet = IF k \in ClientKeys THEN FieldOf("ret", FirstValue(k)) ELSE "0"
  BY Zenon DEF ClientRet
<1> HIDE DEF k
<1> QED BY <1>2, <1>4, <1>5, <1>6, <1>7, Zenon

-----------------------------------------------------------------------------
(* The first value of a key counts.                                        *)

\* The request under way is what the client wrote, and then what the service
\* of its command was given.
FirstInv ==
  /\ CodecInv
  /\ pieces \in BoundedSeq(Pieces, MaxPieces)
  /\ where = "client" => \E cmd \in {"1", "2"} : text = Written(cmd, pieces)
  /\ FirstValueCounts

\* FirstValueCounts of the map that is given.
FirstCount(given) == FirstPairs(given, DataKeys, [k \in DataKeys |-> FirstValue(k)])

Counted ==
  where # "client" =>
    LET given == StrPairAppendToMap(Request.data)
    IN  /\ FirstCount(given)
        /\ OnItsWay /\ Len(text) < MsgSize => DOMAIN given = DataKeys

\* The property in these words.
LEMMA CountsIs == FirstValueCounts <=> Counted
<1> DEFINE given == StrPairAppendToMap(Request.data)
           v == [k \in DataKeys |-> FirstValue(k)]
<1>1. \A k \in DataKeys : v[k] = FirstValue(k)
  BY Zenon
<1>2. FirstValueCounts <=>
        (where # "client" =>
          /\ DOMAIN given \subseteq DataKeys
          /\ \A k \in DOMAIN given :
               /\ IsPrefix(given[k], FirstValue(k))
               /\ given[k] # FirstValue(k) =>
                    \A o \in DOMAIN given : o = k \/ Before(o, k)
          /\ \A k \in DataKeys \ DOMAIN given :
               \A o \in DOMAIN given : Before(o, k)
          /\ OnItsWay /\ Len(text) < MsgSize => DOMAIN given = DataKeys)
  BY Zenon DEF FirstValueCounts
<1> HIDE DEF given, v
<1>3. FirstPairs(given, DataKeys, v) <=>
        /\ DOMAIN given \subseteq DataKeys
        /\ \A k \in DOMAIN given :
             /\ IsPrefix(given[k], v[k])
             /\ given[k] # v[k] =>
                  \A o \in DOMAIN given : o = k \/ Before(o, k)
        /\ \A k \in DataKeys \ DOMAIN given :
             \A o \in DOMAIN given : Before(o, k)
  BY Zenon DEF FirstPairs
<1>4. DOMAIN given \subseteq DataKeys => \A k \in DOMAIN given : v[k] = FirstValue(k)
  BY <1>1, Zenon
<1>5. FirstPairs(given, DataKeys, v) <=>
        /\ DOMAIN given \subseteq DataKeys
        /\ \A k \in DOMAIN given :
             /\ IsPrefix(given[k], FirstValue(k))
             /\ given[k] # FirstValue(k) =>
                  \A o \in DOMAIN given : o = k \/ Before(o, k)
        /\ \A k \in DataKeys \ DOMAIN given :
             \A o \in DOMAIN given : Before(o, k)
  BY <1>3, <1>4
<1> QED BY <1>2, <1>5, Zenon DEF Counted, FirstCount, given, v

\* DoRecv sends on the pairs of the client's text.
LEMMA DoRecvFirst ==
  ASSUME FirstInv, DoRecv
  PROVE  /\ where' \in {"q1", "q2"} /\ OnItsWay'
         /\ FirstCount(StrPairAppendToMap(InitCCmd(text').data))
         /\ Len(text') < MsgSize =>
              DOMAIN StrPairAppendToMap(InitCCmd(text').data) = DataKeys
<1> DEFINE c == InitCCmd(text)
           d == WithSocket(c)
           t == CmdToString(d)
           given == StrPairAppendToMap(InitCCmd(t).data)
           v == [k \in DataKeys |-> FirstValue(k)]
<1>1. /\ where = "client" /\ own = FreshCmd /\ own' = own
      /\ where' \in {"q1", "q2"} /\ text' = t
  BY DEF DoRecv, FirstInv, CodecInv, Hops
<1>2. PICK cmd \in {"1", "2"} : text = Written(cmd, pieces)
  BY <1>1 DEF FirstInv
<1>3. /\ text \in Seq(Tokens)
      /\ DataKeysOf(text) = DataKeys
      /\ \A k \in DataKeys : StrPairAppendToMap(text)[k] = FirstValue(k)
  BY <1>2, ClientPairs DEF FirstInv
<1>4. CmdOK(c)
  BY <1>3, InitTyped
<1>5. Writable(d)
  <2> HIDE DEF c
  <2>1. CmdOK(d) /\ Leads(d)
    BY <1>4, SocketSet
  <2> HIDE DEF d
  <2> QED BY <2>1, LeadsFaithful, FaithfulWritable
<1>6. d.data = c.data
  <2> HIDE DEF c
  <2> QED BY <1>4 DEF WithSocket, CmdOK
<1>7. /\ FirstPairs(given, DataKeysOf(text), StrPairAppendToMap(text))
      /\ Len(t) < MsgSize => DOMAIN given = DataKeysOf(text)
  <2> HIDE DEF d
  <2>1. t = CmdToString(d) /\ d.data = InitCCmd(text).data
    BY <1>6
  <2> HIDE DEF t
  <2> QED BY <1>3, <1>5, <2>1, FirstPairsOfHop
<1>8. \A k \in DataKeys : v[k] = StrPairAppendToMap(text)[k]
  <2>1. \A k \in DataKeys : v[k] = FirstValue(k)
    BY Zenon
  <2> HIDE DEF v
  <2> QED BY <1>3, <2>1
<1> HIDE DEF t, given, v
<1>9. FirstPairs(given, DataKeys, v)
  BY <1>3, <1>7, <1>8, FirstPairsAlike
<1>10. FirstCount(given)
  BY <1>9 DEF FirstCount, v
<1>11. OnItsWay'
  BY <1>1 DEF OnItsWay
<1> QED BY <1>1, <1>3, <1>7, <1>10, <1>11, Zenon DEF given

\* The client's pairs stay what they are.
LEMMA PairsStay ==
  ASSUME pieces' = pieces
  PROVE  /\ DataKeys' = DataKeys /\ \A given : FirstCount(given)' <=> FirstCount(given)
         /\ ClientRet' = ClientRet
<1>1. \A i : Sound(i)' <=> Sound(i)
  BY Zenon DEF Sound
<1>2. ClientKeys' = ClientKeys
  BY <1>1 DEF ClientKeys
<1>3. DataKeys' = DataKeys
  BY <1>2, Zenon DEF DataKeys
<1>4. \A k : FirstValue(k)' = FirstValue(k)
  BY <1>1 DEF FirstValue
<1>5. ASSUME NEW given PROVE FirstCount(given)' <=> FirstCount(given)
  <2> DEFINE v == [k \in DataKeys |-> FirstValue(k)]
  <2>1. v' = v
    BY <1>3, <1>4, Zenon
  <2> HIDE DEF v
  <2> QED BY <1>3, <2>1, Zenon DEF FirstCount, v
<1>6. ClientRet' = ClientRet
  BY <1>2, <1>4, Zenon DEF ClientRet
<1> QED BY <1>3, <1>5, <1>6

\* In its queue and then in the service's hands, the request is the same.
LEMMA RequestStays ==
  ASSUME CodecInv, CodecInv', Next, ~DoRecv
  PROVE  Request' = Request /\ ~OnItsWay' /\ where # "client"
<1>1. CASE SvcTest
  <2>1. where = "q1" /\ own' = own /\ where' \in {"app", "back", "unfinished"}
        /\ seen' = IF own = FreshCmd THEN InitCCmd(text) ELSE seen
    BY <1>1 DEF SvcTest, Reply
  <2> QED BY <2>1 DEF Request, OnItsWay
<1>2. CASE SvcTest2
  <2>1. where = "q2" /\ own = FreshCmd
    BY <1>2 DEF SvcTest2, CodecInv, Hops
  <2>2. where' = "q1" /\ seen' = InitCCmd(text) /\ own' = InitCCmd(text)
    BY <1>2 DEF SvcTest2
  <2>3. InitCCmd(text) # FreshCmd
    <3>1. InitCCmd(text).head["type"] = "1"
      BY <2>1 DEF CodecInv, Hops
    <3>2. FreshCmd.head["type"] = "0"
      BY FreshFields, HeaderNames
    <3> QED BY <3>1, <3>2
  <2> QED BY <2>1, <2>2, <2>3, Zenon DEF Request, OnItsWay
<1>3. CASE SvcTest2Resumed
  <2>1. where = "app" /\ where' = "back" /\ seen' = seen
    BY <1>3 DEF SvcTest2Resumed, Reply
  <2> QED BY <2>1 DEF Request, OnItsWay
<1>4. CASE OnEventFire
  <2>1. where = "back" /\ where' = "done" /\ seen' = seen
    BY <1>4 DEF OnEventFire
  <2> QED BY <2>1 DEF Request, OnItsWay
<1> QED BY <1>1, <1>2, <1>3, <1>4, Zenon DEF Next

\* Every step keeps the pairs of the request.
LEMMA FirstNext ==
  ASSUME FirstInv, [Next]_vars
  PROVE  FirstInv'
<1>1. CodecInv /\ CodecInv'
  BY CodecNext DEF FirstInv
<1>2. pieces' = pieces
  BY DEF Next, vars, DoRecv, SvcTest, SvcTest2, SvcTest2Resumed, OnEventFire
<1>3. /\ DataKeys' = DataKeys
      /\ \A given : FirstCount(given)' <=> FirstCount(given)
  BY <1>2, PairsStay
<1>4. FirstValueCounts <=> Counted
  BY CountsIs
<1>5. FirstValueCounts' <=> Counted'
  BY CountsIs, PTL
<1>6. CASE UNCHANGED vars
  <2>1. where' = where /\ text' = text /\ seen' = seen /\ own' = own
    BY <1>6 DEF vars
  <2>2. Request' = Request /\ (OnItsWay' <=> OnItsWay)
    BY <2>1, Zenon DEF Request, OnItsWay
  <2>3. Counted'
    BY <1>3, <1>4, <2>1, <2>2, Zenon DEF FirstInv, Counted
  <2> QED BY <1>1, <1>2, <1>5, <2>1, <2>3, Zenon DEF FirstInv
<1>7. CASE DoRecv
  <2> DEFINE given == StrPairAppendToMap(InitCCmd(text').data)
  <2>1. /\ where' \in {"q1", "q2"} /\ OnItsWay'
        /\ FirstCount(given)
        /\ Len(text') < MsgSize => DOMAIN given = DataKeys
    BY <1>7, DoRecvFirst, Zenon
  <2>2. Request' = InitCCmd(text') /\ where' # "client"
    BY <2>1 DEF Request
  <2>3. PICK g : g = given
    OBVIOUS
  <2>4. StrPairAppendToMap(Request.data)' = g
    BY <2>2, <2>3, Zenon
  <2> HIDE DEF given
  <2>5. FirstCount(g)' /\ (Len(text') < MsgSize => DOMAIN g = DataKeys')
    BY <1>3, <2>1, <2>3, Zenon
  <2>6. Counted'
    BY <2>4, <2>5, Zenon DEF Counted
  <2> QED BY <1>1, <1>2, <1>5, <2>2, <2>6, Zenon DEF FirstInv
<1>8. CASE Next /\ ~DoRecv
  <2>1. Request' = Request /\ ~OnItsWay' /\ where # "client"
    BY <1>1, <1>8, RequestStays
  <2>2. where' # "client"
    BY <1>8 DEF Next, SvcTest, SvcTest2, SvcTest2Resumed, OnEventFire, Reply
  <2>3. Counted'
    BY <1>3, <1>4, <2>1, Zenon DEF FirstInv, Counted
  <2> QED BY <1>1, <1>2, <1>5, <2>2, <2>3, Zenon DEF FirstInv
<1> QED BY <1>6, <1>7, <1>8, Zenon

\* The request as the client wrote it.
LEMMA FirstInit == Init => FirstInv
<1>1. Init => where = "client" /\ FirstValueCounts
  BY DEF Init, FirstValueCounts
<1>2. Init => /\ pieces \in BoundedSeq(Pieces, MaxPieces)
              /\ \E cmd \in {"1", "2"} : text = Written(cmd, pieces)
  BY Zenon DEF Init
<1> QED BY <1>1, <1>2, CodecInit DEF FirstInv

\* "For a repeated key the value added first counts": a service is given the
\* client's pairs, each key with its first value, and no other; of a request
\* that CCmd::ToString has to cut, those that come first in the map's order,
\* the last value possibly shortened.
THEOREM FirstValuesGiven == Spec => []FirstValueCounts
<1>2. FirstInv /\ [Next]_vars => FirstInv'
  BY FirstNext, Zenon
<1>3. FirstInv => FirstValueCounts
  BY DEF FirstInv
<1> QED BY FirstInit, <1>2, <1>3, PTL DEF Spec

-----------------------------------------------------------------------------
(* The answers reach the client.                                           *)

\* The ret of the request is the client's, and the answer under way has the
\* pairs of the services it went through: as the first sends it to the second,
\* and as a reply, or an error, brings it to netio.
Answers ==
  /\ where = "q1" /\ own = FreshCmd => InitCCmd(text).head["ret"] = ClientRet
  /\ where = "app" /\ own # FreshCmd => Asked(text)
  /\ where = "back" /\ own # FreshCmd => ToldBoth(text)
  /\ where = "back" /\ own = FreshCmd =>
       IF ClientRet = "0" THEN ToldOne(text) ELSE ToldFail(ClientRet, text)

AnswerInv == FirstInv /\ Answers /\ AnswersSurvive

\* What a reply of data d makes of the text.
LEMMA ReplyTells ==
  ASSUME NEW c, CmdOK(c), Leads(c), Reply(c)
  PROVE  /\ where' = "back"
         /\ c.data = First => ToldOne(text')
         /\ c.data = First \o Second => ToldBoth(text')
         /\ \A n \in Numbers : c.data = ErrorOf(n) => ToldFail(n, text')
<1> DEFINE d == c.data
<1>1. where' = "back"
  BY ReplySends
<1>2. PICK b : Faithful(b) /\ b.data = d \o By /\ text' = CmdToString(b)
  BY ReplySends, Zenon DEF By
<1> HIDE DEF d
<1>3. /\ b.data = First \o By => ToldOne(text')
      /\ b.data = (First \o Second) \o By => ToldBoth(text')
      /\ \A n \in Numbers : b.data = ErrorOf(n) \o By => ToldFail(n, text')
  BY <1>2, AnswerSent, Zenon
<1>4. /\ d = First => b.data = First \o By
      /\ d = First \o Second => b.data = (First \o Second) \o By
      /\ \A n \in Numbers : d = ErrorOf(n) => b.data = ErrorOf(n) \o By
  BY <1>2, Zenon
<1> QED BY <1>1, <1>3, <1>4, Zenon DEF d

\* The second service is given the first one's answer and adds its own.
LEMMA AddsAnswer ==
  ASSUME NEW s \in Seq(Tokens), Asked(s)
  PROVE  AnswerOfBoth(InitCCmd(s)) = First \o Second
<1>1. InitCCmd(s).data = (Resp1 \o <<"=">>) \o R1
  <2>1. DataKeysOf(s) = {Resp1} /\ StrPairAppendToMap(s)[Resp1] = R1
    BY DEF Asked
  <2> QED BY <2>1, DataOfOne
<1>2. First = (Resp1 \o <<"=">>) \o R1
  BY AnswerTexts, Zenon
<1>3. InitCCmd(s).data = First
  BY <1>1, <1>2, Zenon
<1> QED BY <1>3, Zenon DEF AnswerOfBoth, Second

\* The client's ret is a number.
LEMMA RetTyped == ClientRet \in Numbers
<1>1. "ret" \in Range(Header) \ {"cliIp"} /\ "0" \in Numbers
  BY HeaderNames, KnownNumbers
<1>2. FieldOf("ret", FirstValue(<<"ret">>)) \in Numbers
  BY <1>1, FieldOfTyped
<1> QED BY <1>1, <1>2, Zenon DEF ClientRet

\* DoRecv keeps the ret that came with the request.
LEMMA RetReceived ==
  ASSUME FirstInv, DoRecv
  PROVE  where' \in {"q1", "q2"} /\ InitCCmd(text').head["ret"] = ClientRet
<1> DEFINE c == InitCCmd(text)
           d == WithSocket(c)
<1>1. where = "client" /\ where' \in {"q1", "q2"} /\ text' = CmdToString(d)
  BY DEF DoRecv
<1>2. PICK cmd \in {"1", "2"} : text = Written(cmd, pieces)
  BY <1>1 DEF FirstInv
<1>3. c.head["ret"] = ClientRet
  BY <1>2, ClientsRet DEF FirstInv
<1>4. CmdOK(c)
  BY InitTyped DEF FirstInv, CodecInv, TypeOK
<1>5. "ret" \in Range(Header) /\ "ret" \notin DOMAIN Socket /\ "ret" # "type"
  BY HeaderNames, SocketFields
<1> HIDE DEF c
<1>6. d.head["ret"] = c.head["ret"]
  BY <1>4, <1>5 DEF WithSocket, CmdOK
<1>7. Faithful(d)
  <2>1. CmdOK(d) /\ Leads(d)
    BY <1>4, SocketSet
  <2> HIDE DEF d
  <2> QED BY <2>1, LeadsFaithful
<1> HIDE DEF d
<1>8. InitCCmd(text').head["ret"] = d.head["ret"]
  BY <1>1, <1>5, <1>7, ReadsBack
<1> QED BY <1>1, <1>3, <1>6, <1>8

\* What the first service makes of the client's request, or of the second's.
LEMMA SvcTestAnswers ==
  ASSUME CodecInv, Answers, SvcTest
  PROVE  /\ where' \in {"app", "back", "unfinished"} /\ own' = own
         /\ where' = "app" /\ own # FreshCmd => Asked(text')
         /\ where' = "back" => own = FreshCmd
         /\ where' = "back" => IF ClientRet = "0" THEN ToldOne(text')
                               ELSE ToldFail(ClientRet, text')
<1> DEFINE n == InitCCmd(text).head["ret"]
<1>1. where = "q1" /\ own' = own
  BY SvcTestSends
<1>2. own = FreshCmd => n = ClientRet
  BY <1>1 DEF Answers
<1>3. own # FreshCmd => n = "0"
  BY <1>1 DEF CodecInv, Hops
<1>4. \/ where' = "unfinished"
      \/ \E b : /\ Faithful(b) /\ b.data = Result(n)
                /\ \/ Reply(b) /\ Leads(b) /\ own = FreshCmd
                   \/ text' = CmdToString(b) /\ where' = "app"
  BY SvcTestSends, Zenon
<1> HIDE DEF n
<1>5. CASE where' = "unfinished"
  BY <1>1, <1>5
<1>6. ASSUME NEW b, Faithful(b), b.data = Result(n), Reply(b), Leads(b), own = FreshCmd
      PROVE  /\ where' = "back"
             /\ IF ClientRet = "0" THEN ToldOne(text') ELSE ToldFail(ClientRet, text')
  <2>1. /\ where' = "back"
        /\ b.data = First => ToldOne(text')
        /\ \A o \in Numbers : b.data = ErrorOf(o) => ToldFail(o, text')
    BY <1>6, ReplyTells DEF Faithful
  <2>2. b.data = IF ClientRet = "0" THEN First ELSE ErrorOf(ClientRet)
    BY <1>2, <1>6, Zenon DEF Result, First
  <2> QED BY <2>1, <2>2, RetTyped
<1>7. ASSUME NEW b, Faithful(b), b.data = Result(n), text' = CmdToString(b)
      PROVE  own # FreshCmd => Asked(text')
  <2>1. own # FreshCmd => b.data = First
    BY <1>3, <1>7, Zenon DEF Result, First
  <2> QED BY <1>7, <2>1, AnswerSent, Zenon
<1> QED BY <1>1, <1>4, <1>5, <1>6, <1>7

\* Every hop keeps the pairs of the answers.
LEMMA AnswersNext ==
  ASSUME AnswerInv, [Next]_vars
  PROVE  AnswerInv'
<1>1. CodecInv /\ FirstInv'
  BY FirstNext DEF AnswerInv, FirstInv
<1>2. text \in Seq(Tokens)
  BY <1>1 DEF CodecInv, TypeOK
<1>9. pieces' = pieces
  BY DEF Next, vars, DoRecv, SvcTest, SvcTest2, SvcTest2Resumed, OnEventFire
<1>10. ClientRet' = ClientRet
  BY <1>9, PairsStay
<1>3. CASE DoRecv
  <2>1. where' \in {"q1", "q2"} /\ InitCCmd(text').head["ret"] = ClientRet
    BY <1>3, RetReceived DEF AnswerInv
  <2>2. Answers'
    BY <1>10, <2>1, Zenon DEF Answers
  <2> QED BY <1>1, <2>1, <2>2 DEF AnswerInv, AnswersSurvive
<1>4. CASE SvcTest
  <2>1. /\ where' \in {"app", "back", "unfinished"} /\ own' = own
        /\ where' = "app" /\ own # FreshCmd => Asked(text')
        /\ where' = "back" => own = FreshCmd
        /\ where' = "back" => IF ClientRet = "0" THEN ToldOne(text')
                              ELSE ToldFail(ClientRet, text')
    BY <1>1, <1>4, SvcTestAnswers DEF AnswerInv
  <2>2. \A n : /\ Asked(text)' <=> Asked(text')
               /\ ToldOne(text)' <=> ToldOne(text')
               /\ ToldFail(n, text)' <=> ToldFail(n, text')
    OBVIOUS
  <2>3. Answers'
    BY <1>10, <2>1 DEF Answers
  <2> QED BY <1>1, <2>1, <2>3 DEF AnswerInv, AnswersSurvive
<1>5. CASE SvcTest2
  <2>1. where' = "q1" /\ own' # FreshCmd
    <3>1. where = "q2" /\ own = FreshCmd
      BY <1>1, <1>5 DEF SvcTest2, CodecInv, Hops
    <3>2. InitCCmd(text).head["type"] = "1"
      BY <1>1, <3>1 DEF CodecInv, Hops
    <3>3. FreshCmd.head["type"] = "0"
      BY FreshFields, HeaderNames
    <3>4. where' = "q1" /\ own' = InitCCmd(text)
      BY <1>5 DEF SvcTest2
    <3> QED BY <3>2, <3>3, <3>4
  <2> QED BY <1>1, <2>1 DEF AnswerInv, Answers, AnswersSurvive
<1>6. CASE SvcTest2Resumed
  <2>1. where = "app" /\ own' = own /\ own # FreshCmd
    BY <1>1, <1>6, SvcTest2Replies
  <2>2. PICK c : CmdOK(c) /\ Leads(c) /\ Reply(c) /\ c.data = AnswerOfBoth(InitCCmd(text))
    BY <1>1, <1>6, SvcTest2Replies
  <2>3. Asked(text)
    BY <2>1, Zenon DEF AnswerInv, Answers
  <2>4. c.data = First \o Second
    BY <1>2, <2>2, <2>3, AddsAnswer, Zenon
  <2>5. where' = "back" /\ ToldBoth(text')
    BY <2>2, <2>4, ReplyTells, Zenon
  <2> QED BY <1>1, <2>1, <2>5 DEF AnswerInv, Answers, AnswersSurvive
<1>7. CASE OnEventFire
  <2>1. /\ where = "back" /\ where' = "done" /\ own' = own
        /\ sent'.msg = Cut(InitCCmd(text).data)
    BY <1>7 DEF OnEventFire
  <2> DEFINE m == StrPairAppendToMap(sent'.msg)
             one == [k \in {Resp1} |-> R1 \o By]
             both == [k \in {Resp1, Resp2} |-> IF k = Resp1 THEN R1 ELSE R2 \o By]
             fail == [k \in {Err1, Err2} |->
                        IF k = Err1 THEN <<ClientRet>> ELSE Happend \o By]
  <2>2. /\ ToldOne(text) => m = one
        /\ ToldBoth(text) => m = both
        /\ ToldFail(ClientRet, text) => m = fail
    BY <1>2, <2>1, AnswerShown, RetTyped, Zenon
  <2>3. IF own # FreshCmd THEN ToldBoth(text)
        ELSE IF ClientRet = "0" THEN ToldOne(text) ELSE ToldFail(ClientRet, text)
    BY <2>1 DEF AnswerInv, Answers
  <2>4. Told = IF own # FreshCmd THEN both
               ELSE IF ClientRet = "0" THEN one ELSE fail
    BY Zenon DEF Told, Resp1, Resp2, R1, R2, By, Err1, Err2, Happend
  <2> HIDE DEF m, one, both, fail
  <2>5. m = Told
    BY <2>2, <2>3, <2>4
  <2>6. Told' = Told
    BY <1>10, <2>1, Zenon DEF Told
  <2>7. AnswersSurvive'
    BY <2>5, <2>6, Zenon DEF AnswersSurvive, m
  <2> QED BY <1>1, <2>1, <2>7 DEF AnswerInv, Answers
<1>8. CASE UNCHANGED vars
  <2>1. where' = where /\ text' = text /\ own' = own /\ sent' = sent
    BY <1>8 DEF vars
  <2>2. Answers'
    BY <1>10, <2>1, Zenon DEF AnswerInv, Answers
  <2>3. Told' = Told
    BY <1>10, <2>1, Zenon DEF Told
  <2>4. AnswersSurvive'
    BY <2>1, <2>3, Zenon DEF AnswerInv, AnswersSurvive
  <2> QED BY <1>1, <2>2, <2>4, Zenon DEF AnswerInv
<1> QED BY <1>3, <1>4, <1>5, <1>6, <1>7, <1>8, Zenon DEF Next

\* The answers of all services a request went through reach the client as
\* pairs, taken apart and put together by ToString and InitCCmd at each hop;
\* of a request to the first service that has a ret, an error with this ret,
\* or nothing at all.
THEOREM AnswersReachClient == Spec => []AnswersSurvive
<1>1. Init => AnswerInv
  <2>1. Init => where = "client"
    BY DEF Init
  <2> QED BY <2>1, FirstInit DEF AnswerInv, Answers, AnswersSurvive
<1>2. AnswerInv /\ [Next]_vars => AnswerInv'
  BY AnswersNext, Zenon
<1>3. AnswerInv => AnswersSurvive
  BY DEF AnswerInv
<1> QED BY <1>1, <1>2, <1>3, PTL DEF Spec
=============================================================================
