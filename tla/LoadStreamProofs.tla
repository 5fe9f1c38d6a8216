--------------------------- MODULE LoadStreamProofs ---------------------------
(***************************************************************************)
(* What the load generator's verdict on a stream means, for every response *)
(* body and however the network cuts it.                                   *)
(*                                                                         *)
(* Every octet is its position, so the whole argument is that the buffers  *)
(* are runs of consecutive positions (Run): "encoded" the characters from  *)
(* the last quartet decoded up to the last one read (TextInv), "binary"    *)
(* the octets from the last frame taken up to the last one decoded         *)
(* (BinaryInv).  That a block of quartets decodes to a run, padding        *)
(* between blocks included, is a fact about sums (DecodedRun); that a      *)
(* run starting at a frame begins with that frame makes "frames" and the   *)
(* result an account of the first frames of the body (InStep).  The        *)
(* verdict is read off that account when both buffers are empty.           *)
(***************************************************************************)
EXTENDS LoadStream, FiniteSetTheorems, SequenceTheorems, WellFoundedInduction,
        TLAPS

(* Every non-empty set of natural numbers has a least element. *)
LEMMA LeastElement ==
  ASSUME NEW C \in SUBSET Nat, C # {}
  PROVE  \E c \in C : \A d \in C : c <= d
<1> DEFINE R == {ss \in Nat \X Nat : ss[1] < ss[2]}
<1>1. IsWellFoundedOn(R, Nat)
  BY NatLessThanWellFounded DEF OpToRel
<1>2. \A c, d \in Nat : d < c => <<d, c>> \in R
  OBVIOUS
<1> HIDE DEF R
<1>3. PICK c \in C : \A d \in C : ~ (<<d, c>> \in R)
  BY <1>1, WFMin
<1>4. ASSUME NEW d \in C
      PROVE  c <= d
  <2>1. c \in Nat /\ d \in Nat
    OBVIOUS
  <2>2. ~ (<<d, c>> \in R)
    BY <1>3
  <2>3. ~ (d < c)
    BY <2>1, <2>2, <1>2
  <2>4. QED
    BY <2>1, <2>3
<1>5. QED
  BY <1>4

-----------------------------------------------------------------------------
(* Sums of the first elements of a sequence.                               *)

(* The function that SumTo defines by recursion. *)
Sums(f, s, n) == f = [i \in 0..n |-> IF i = 0 THEN 0 ELSE s[i] + f[i - 1]]

LEMMA SumsExist ==
  ASSUME NEW s, NEW n \in Nat
  PROVE  \E f : Sums(f, s, n)
<1> SUFFICES ASSUME \A f : ~Sums(f, s, n)
             PROVE  FALSE
  OBVIOUS
<1> DEFINE C == {m \in Nat : \A f : ~Sums(f, s, m)}
<1>1. C \in SUBSET Nat /\ C # {}
  OBVIOUS
<1>2. PICK m \in C : \A d \in C : m <= d
  BY <1>1, LeastElement
<1>3. CASE m = 0
  <2> DEFINE g == [i \in 0..0 |-> 0]
             h == [i \in 0..0 |-> IF i = 0 THEN 0 ELSE s[i] + g[i - 1]]
  <2>1. g = h
    OBVIOUS
  <2>2. Sums(g, s, 0)
    BY <2>1 DEF Sums
  <2>3. QED
    BY <1>2, <1>3, <2>2
<1>4. CASE m # 0
  <2>1. m - 1 \in Nat /\ m - 1 \notin C /\ m \in Nat
    BY <1>2, <1>4
  <2>2. PICK f : Sums(f, s, m - 1)
    BY <2>1
  <2> DEFINE g == [i \in 0..m |-> IF i = m THEN s[m] + f[m - 1] ELSE f[i]]
             h == [i \in 0..m |-> IF i = 0 THEN 0 ELSE s[i] + g[i - 1]]
  <2>3. ASSUME NEW i \in 0..m
        PROVE  g[i] = h[i]
    <3>1. CASE i = m
      <4>1. m - 1 \in 0..m /\ m - 1 # m
        BY <2>1, <1>4
      <4>2. g[m - 1] = f[m - 1]
        BY <4>1
      <4>3. QED
        BY <3>1, <1>4, <4>2
    <3>2. CASE i # m
      <4>1. i \in 0..(m - 1)
        BY <2>1, <3>2
      <4>2. g[i] = f[i] /\ f[i] = IF i = 0 THEN 0 ELSE s[i] + f[i - 1]
        BY <2>2, <3>2, <4>1 DEF Sums
      <4>3. i # 0 => g[i - 1] = f[i - 1]
        <5>1. i # 0 => i - 1 \in 0..m /\ i - 1 # m
          BY <2>1, <4>1
        <5>2. QED
          BY <5>1
      <4>4. QED
        BY <4>2, <4>3
    <3>3. QED
      BY <3>1, <3>2
  <2>4. g = h
    BY <2>3
  <2>5. Sums(g, s, m)
    BY <2>4 DEF Sums
  <2>6. QED
    BY <1>2, <2>5
<1>5. QED
  BY <1>3, <1>4

LEMMA SumsUnique ==
  ASSUME NEW s, NEW n \in Nat, NEW m \in 0..n,
         NEW f, NEW g, Sums(f, s, m), Sums(g, s, n)
  PROVE  f[m] = g[m]
<1> SUFFICES ASSUME f[m] # g[m]
             PROVE  FALSE
  OBVIOUS
<1> DEFINE C == {i \in 0..m : f[i] # g[i]}
<1>1. C \in SUBSET Nat /\ C # {}
  OBVIOUS
<1>2. PICK i \in C : \A d \in C : i <= d
  BY <1>1, LeastElement
<1>3. i \in 0..m /\ i \in 0..n
  BY <1>2
<1>4. /\ f[i] = IF i = 0 THEN 0 ELSE s[i] + f[i - 1]
      /\ g[i] = IF i = 0 THEN 0 ELSE s[i] + g[i - 1]
  BY <1>3 DEF Sums
<1>5. i # 0 => f[i - 1] = g[i - 1]
  BY <1>2, <1>3
<1>6. QED
  BY <1>2, <1>3, <1>4, <1>5

LEMMA SumToIs ==
  ASSUME NEW s, NEW n \in Nat
  PROVE  \E f : Sums(f, s, n) /\ SumTo(s, n) = f[n]
<1>1. \E f : f = [i \in 0..n |-> IF i = 0 THEN 0 ELSE s[i] + f[i - 1]]
  BY SumsExist DEF Sums
<1>2. QED
  BY <1>1 DEF SumTo, Sums

LEMMA SumToStep ==
  ASSUME NEW s, NEW n \in Nat
  PROVE  SumTo(s, n) = IF n = 0 THEN 0 ELSE s[n] + SumTo(s, n - 1)
<1>1. PICK f : Sums(f, s, n) /\ SumTo(s, n) = f[n]
  BY SumToIs
<1>2. f[n] = IF n = 0 THEN 0 ELSE s[n] + f[n - 1]
  BY <1>1 DEF Sums
<1>3. ASSUME n # 0
      PROVE  SumTo(s, n - 1) = f[n - 1]
  <2>1. n - 1 \in Nat /\ n - 1 \in 0..n
    BY <1>3
  <2>2. PICK g : Sums(g, s, n - 1) /\ SumTo(s, n - 1) = g[n - 1]
    BY <2>1, SumToIs
  <2>3. g[n - 1] = f[n - 1]
    BY <1>1, <2>1, <2>2, SumsUnique
  <2>4. QED
    BY <2>2, <2>3
<1>4. QED
  BY <1>1, <1>2, <1>3

LEMMA SumToNat ==
  ASSUME NEW s, NEW n \in Nat, \A i \in 1..n : s[i] \in Nat
  PROVE  SumTo(s, n) \in Nat
<1> SUFFICES ASSUME SumTo(s, n) \notin Nat
             PROVE  FALSE
  OBVIOUS
<1> DEFINE C == {i \in 0..n : SumTo(s, i) \notin Nat}
<1>1. C \in SUBSET Nat /\ C # {}
  OBVIOUS
<1>2. PICK i \in C : \A d \in C : i <= d
  BY <1>1, LeastElement
<1>3. i \in 0..n /\ SumTo(s, i) \notin Nat
  BY <1>2
<1>4. SumTo(s, i) = IF i = 0 THEN 0 ELSE s[i] + SumTo(s, i - 1)
  BY <1>3, SumToStep
<1>5. i # 0 => SumTo(s, i - 1) \in Nat /\ s[i] \in Nat
  <2>1. i # 0 => i - 1 \in 0..n /\ ~(i <= i - 1) /\ i \in 1..n
    BY <1>3
  <2>2. i # 0 => i - 1 \notin C
    BY <1>2, <2>1
  <2>3. QED
    BY <2>1, <2>2
<1>6. QED
  BY <1>3, <1>4, <1>5

-----------------------------------------------------------------------------
(* The frames of a body.                                                   *)

LEMMA BodyFacts ==
  ASSUME NEW b \in Bodies
  PROVE  /\ HeaderSize \in Nat \ {0} /\ MaxFrame \in Nat
         /\ b.frames \in Seq(Frames) /\ Len(b.frames) \in Nat
         /\ b.eof \in Nat /\ b.text \in BOOLEAN /\ b.junk \in Nat
         /\ Len(b.blocks) \in Nat
         /\ \A k \in 1..Len(b.frames) : b.frames[k] \in Frames
         /\ \A k \in 1..Len(b.frames) :
              /\ b.frames[k].size \in Nat /\ b.frames[k].size >= HeaderSize
              /\ StartOf(b, k) < b.eof
         /\ \A j \in 1..Len(b.blocks) : b.blocks[j] \in Nat
         /\ b.text => SumTo(b.blocks, Len(b.blocks)) = b.eof
<1>1. /\ b \in [frames : Seq(Frames), eof : Nat, text : BOOLEAN,
                blocks : Seq(Nat), junk : Nat]
      /\ \A k \in 1..Len(b.frames) :
           b.frames[k].size >= HeaderSize /\ StartOf(b, k) < b.eof
      /\ b.text => SumTo(b.blocks, Len(b.blocks)) = b.eof
      /\ HeaderSize \in Nat \ {0} /\ MaxFrame \in Nat
  BY LoadAssumption
<1>2. /\ b.frames \in Seq(Frames) /\ b.blocks \in Seq(Nat)
      /\ b.eof \in Nat /\ b.text \in BOOLEAN /\ b.junk \in Nat
  BY <1>1
<1>3. /\ Len(b.frames) \in Nat /\ Len(b.blocks) \in Nat
      /\ \A k \in 1..Len(b.frames) : b.frames[k] \in Frames
      /\ \A j \in 1..Len(b.blocks) : b.blocks[j] \in Nat
  BY <1>2
<1>4. \A k \in 1..Len(b.frames) : b.frames[k].size \in Nat
  BY <1>3 DEF Frames
<1>5. QED
  BY <1>1, <1>2, <1>3, <1>4

(* Frame after frame, from the first octet to the end. *)
LEMMA StartFacts ==
  ASSUME NEW b \in Bodies
  PROVE  /\ StartOf(b, 1) = 0
         /\ \A k \in 1..(Len(b.frames) + 1) : StartOf(b, k) \in Nat
         /\ \A k \in 1..Len(b.frames) :
              StartOf(b, k + 1) = StartOf(b, k) + b.frames[k].size
         /\ Whole(b) = StartOf(b, Len(b.frames) + 1)
<1> DEFINE n == Len(b.frames)
           s == Sizes(b)
<1>1. /\ n \in Nat
      /\ \A k \in 1..n : s[k] = b.frames[k].size /\ s[k] \in Nat
  BY BodyFacts DEF Sizes
<1> HIDE DEF n, s
<1>2. \A k \in 1..(n + 1) : k - 1 \in Nat /\ \A i \in 1..(k - 1) : s[i] \in Nat
  BY <1>1
<1>3. \A k \in 1..(n + 1) : SumTo(s, k - 1) \in Nat
  BY <1>2, SumToNat
<1>4. SumTo(s, 0) = 0
  BY SumToStep
<1>5. ASSUME NEW k \in 1..n
      PROVE  SumTo(s, k) = SumTo(s, k - 1) + b.frames[k].size
  <2>1. k \in Nat /\ k # 0 /\ k \in 1..(n + 1)
    BY <1>1
  <2>2. SumTo(s, k) = s[k] + SumTo(s, k - 1)
    BY <2>1, SumToStep
  <2>3. s[k] = b.frames[k].size /\ s[k] \in Nat /\ SumTo(s, k - 1) \in Nat
    BY <1>1, <1>3, <2>1
  <2>4. QED
    BY <2>2, <2>3
<1>6. /\ StartOf(b, 1) = 0
      /\ \A k \in 1..(n + 1) : StartOf(b, k) = SumTo(s, k - 1)
      /\ \A k \in 1..n : StartOf(b, k + 1) = SumTo(s, k)
      /\ Whole(b) = SumTo(s, n)
      /\ StartOf(b, n + 1) = SumTo(s, n)
  <2>1. /\ StartOf(b, 1) = SumTo(s, 1 - 1)
        /\ \A k \in 1..(n + 1) : StartOf(b, k) = SumTo(s, k - 1)
        /\ \A k \in 1..n : StartOf(b, k + 1) = SumTo(s, k + 1 - 1)
        /\ StartOf(b, n + 1) = SumTo(s, n + 1 - 1)
        /\ Whole(b) = SumTo(s, n)
    BY DEF StartOf, Whole, s, n
  <2>2. 1 - 1 = 0 /\ n + 1 - 1 = n /\ \A k \in 1..n : k + 1 - 1 = k
    BY <1>1
  <2>3. QED
    BY <1>4, <2>1, <2>2
<1>7. \A k \in 1..n : StartOf(b, k + 1) = StartOf(b, k) + b.frames[k].size
  <2>1. \A k \in 1..n : k \in 1..(n + 1)
    BY <1>1
  <2>2. QED
    BY <1>5, <1>6, <2>1
<1>8. \A k \in 1..(n + 1) : StartOf(b, k) \in Nat
  BY <1>3, <1>6
<1>9. QED
  BY <1>6, <1>7, <1>8 DEF n

LEMMA StartOrdered ==
  ASSUME NEW b \in Bodies, NEW i \in 1..Len(b.frames),
         NEW k \in (i + 1)..(Len(b.frames) + 1)
  PROVE  StartOf(b, i) + b.frames[i].size <= StartOf(b, k)
<1> SUFFICES ASSUME ~(StartOf(b, i) + b.frames[i].size <= StartOf(b, k))
             PROVE  FALSE
  OBVIOUS
<1> DEFINE n == Len(b.frames)
           C == {j \in (i + 1)..(n + 1) :
                   ~(StartOf(b, i) + b.frames[i].size <= StartOf(b, j))}
<1>1. n \in Nat /\ C \in SUBSET Nat /\ C # {}
  BY BodyFacts
<1>2. PICK j \in C : \A d \in C : j <= d
  BY <1>1, LeastElement
<1>3. /\ j \in (i + 1)..(n + 1)
      /\ ~(StartOf(b, i) + b.frames[i].size <= StartOf(b, j))
  BY <1>2
<1>4. /\ \A m \in 1..(n + 1) : StartOf(b, m) \in Nat
      /\ \A m \in 1..n : StartOf(b, m + 1) = StartOf(b, m) + b.frames[m].size
      /\ \A m \in 1..n : b.frames[m].size \in Nat
  BY StartFacts, BodyFacts
<1> HIDE DEF n
<1>5. i \in 1..n
  BY DEF n
<1>6. CASE j = i + 1
  BY <1>1, <1>3, <1>4, <1>5, <1>6
<1>7. CASE j # i + 1
  <2>1. j - 1 \in (i + 1)..(n + 1) /\ j - 1 \in 1..n /\ ~(j <= j - 1)
    BY <1>1, <1>3, <1>5, <1>7
  <2>2. j - 1 \notin C
    BY <1>2, <2>1
  <2>3. StartOf(b, i) + b.frames[i].size <= StartOf(b, j - 1)
    BY <2>1, <2>2
  <2>4. StartOf(b, j) = StartOf(b, j - 1) + b.frames[j - 1].size
    <3>1. StartOf(b, (j - 1) + 1) = StartOf(b, j - 1) + b.frames[j - 1].size
      BY <1>4, <2>1
    <3>2. (j - 1) + 1 = j
      BY <1>3, <1>5
    <3>3. QED
      BY <3>1, <3>2
  <2>5. /\ StartOf(b, j - 1) \in Nat /\ b.frames[j - 1].size \in Nat
        /\ StartOf(b, i) \in Nat /\ b.frames[i].size \in Nat
    <3>1. i \in 1..(n + 1) /\ j - 1 \in 1..(n + 1)
      BY <1>1, <1>5, <2>1
    <3>2. QED
      BY <1>4, <1>5, <2>1, <3>1
  <2> DEFINE from == StartOf(b, i)
             size == b.frames[i].size
             to == StartOf(b, j - 1)
             more == b.frames[j - 1].size
  <2>6. /\ from \in Nat /\ size \in Nat /\ to \in Nat /\ more \in Nat
        /\ from + size <= to /\ StartOf(b, j) = to + more
    BY <2>3, <2>4, <2>5
  <2> HIDE DEF from, size, to, more
  <2>7. from + size <= StartOf(b, j)
    BY <2>6
  <2>8. QED
    BY <1>3, <2>7 DEF from, size
<1>8. QED
  BY <1>6, <1>7

(* No two frames start at one place, and the last one ends the whole. *)
LEMMA StartUnique ==
  ASSUME NEW b \in Bodies, NEW i \in 1..(Len(b.frames) + 1),
         NEW k \in 1..(Len(b.frames) + 1), StartOf(b, i) = StartOf(b, k)
  PROVE  i = k
<1> DEFINE n == Len(b.frames)
<1>1. /\ n \in Nat
      /\ \A m \in 1..n : b.frames[m].size \in Nat /\ b.frames[m].size > 0
      /\ \A m \in 1..(n + 1) : StartOf(b, m) \in Nat
  BY BodyFacts, StartFacts
<1> HIDE DEF n
<1>2. i \in 1..(n + 1) /\ k \in 1..(n + 1)
  BY DEF n
<1>3. ASSUME NEW j \in 1..(n + 1), NEW m \in 1..(n + 1), j < m
      PROVE  StartOf(b, j) < StartOf(b, m)
  <2>1. j \in 1..n /\ m \in (j + 1)..(n + 1)
    BY <1>1, <1>3
  <2>2. StartOf(b, j) + b.frames[j].size <= StartOf(b, m)
    BY <2>1, StartOrdered DEF n
  <2> DEFINE from == StartOf(b, j)
             size == b.frames[j].size
             to == StartOf(b, m)
  <2>3. /\ from \in Nat /\ size \in Nat /\ size > 0 /\ to \in Nat
        /\ from + size <= to
    BY <1>1, <1>3, <2>1, <2>2
  <2> HIDE DEF from, size, to
  <2>4. from < to
    BY <2>3
  <2>5. QED
    BY <2>4 DEF from, to
<1>4. CASE i < k
  <2>1. StartOf(b, i) < StartOf(b, k)
    BY <1>2, <1>3, <1>4
  <2>2. QED
    BY <1>1, <1>2, <2>1
<1>5. CASE k < i
  <2>1. StartOf(b, k) < StartOf(b, i)
    BY <1>2, <1>3, <1>5
  <2>2. QED
    BY <1>1, <1>2, <2>1
<1>6. QED
  BY <1>2, <1>4, <1>5

LEMMA DataCountFacts ==
  ASSUME NEW b, NEW n \in Nat
  PROVE  /\ DataCount(b, 0) = 0
         /\ DataCount(b, n) \in Nat
         /\ DataCount(b, n + 1) =
              IF b.frames[n + 1].trailer THEN DataCount(b, n)
              ELSE DataCount(b, n) + 1
<1> DEFINE D(k) == {i \in 1..k : ~b.frames[i].trailer}
<1>1. \A k \in Nat : IsFiniteSet(D(k))
  <2>1. ASSUME NEW k \in Nat
        PROVE  IsFiniteSet(D(k))
    <3>1. IsFiniteSet(1..k)
      BY FS_Interval
    <3>2. D(k) \subseteq 1..k
      OBVIOUS
    <3>3. QED
      BY <3>1, <3>2, FS_Subset
  <2>2. QED
    BY <2>1
<1>2. DataCount(b, 0) = 0
  <2>1. D(0) = {}
    OBVIOUS
  <2>2. QED
    BY <2>1, FS_EmptySet DEF DataCount
<1>3. DataCount(b, n) \in Nat
  BY <1>1, FS_CardinalityType DEF DataCount
<1>4. CASE b.frames[n + 1].trailer
  <2>1. D(n + 1) = D(n)
    <3>1. ASSUME NEW i
          PROVE  i \in D(n + 1) <=> i \in D(n)
      BY <1>4
    <3>2. QED
      BY <3>1
  <2>2. QED
    BY <1>2, <1>3, <1>4, <2>1 DEF DataCount
<1>5. CASE ~b.frames[n + 1].trailer
  <2>1. D(n + 1) = D(n) \cup {n + 1} /\ n + 1 \notin D(n)
    <3>1. ASSUME NEW i
          PROVE  i \in D(n + 1) <=> i \in D(n) \/ i = n + 1
      BY <1>5
    <3>2. QED
      BY <3>1
  <2> HIDE DEF D
  <2>2. Cardinality(D(n) \cup {n + 1}) = Cardinality(D(n)) + 1
    BY <1>1, <2>1, FS_AddElement
  <2>3. DataCount(b, n + 1) = Cardinality(D(n + 1)) /\ DataCount(b, n) = Cardinality(D(n))
    BY DEF DataCount, D
  <2>4. QED
    BY <1>2, <1>3, <1>5, <2>1, <2>2, <2>3
<1>6. QED
  BY <1>4, <1>5

LEMMA DataCountOrdered ==
  ASSUME NEW b, NEW n \in Nat, NEW m \in Nat, n <= m
  PROVE  /\ DataCount(b, n) <= DataCount(b, m)
         /\ n < m /\ ~b.frames[m].trailer => DataCount(b, n) < DataCount(b, m)
<1>1. ASSUME NEW k \in Nat, n <= k, ~(DataCount(b, n) <= DataCount(b, k))
      PROVE  FALSE
  <2> DEFINE C == {i \in Nat : n <= i /\ ~(DataCount(b, n) <= DataCount(b, i))}
  <2>1. C \in SUBSET Nat /\ C # {}
    BY <1>1
  <2>2. PICK i \in C : \A d \in C : i <= d
    BY <2>1, LeastElement
  <2>3. i \in Nat /\ n <= i /\ ~(DataCount(b, n) <= DataCount(b, i))
    BY <2>2
  <2>4. DataCount(b, n) \in Nat
    BY DataCountFacts
  <2>5. i # n
    BY <2>3, <2>4
  <2>6. i - 1 \in Nat /\ n <= i - 1 /\ ~(i <= i - 1) /\ (i - 1) + 1 = i
    BY <2>3, <2>5
  <2>7. DataCount(b, n) <= DataCount(b, i - 1)
    BY <2>2, <2>6
  <2>8. /\ DataCount(b, i - 1) \in Nat
        /\ \/ DataCount(b, i) = DataCount(b, i - 1)
           \/ DataCount(b, i) = DataCount(b, i - 1) + 1
    BY <2>6, DataCountFacts
  <2>9. QED
    BY <2>3, <2>4, <2>7, <2>8
<1>2. DataCount(b, n) <= DataCount(b, m)
  BY <1>1
<1>3. ASSUME n < m, ~b.frames[m].trailer
      PROVE  DataCount(b, n) < DataCount(b, m)
  <2>1. m - 1 \in Nat /\ n <= m - 1 /\ (m - 1) + 1 = m
    BY <1>3
  <2>2. DataCount(b, n) <= DataCount(b, m - 1)
    BY <1>1, <2>1
  <2>3. DataCount(b, m) = DataCount(b, m - 1) + 1 /\ DataCount(b, m - 1) \in Nat
    BY <1>3, <2>1, DataCountFacts
  <2>4. DataCount(b, n) \in Nat
    BY DataCountFacts
  <2>5. QED
    BY <2>2, <2>3, <2>4
<1>4. QED
  BY <1>2, <1>3

-----------------------------------------------------------------------------
(* The text of a body: its blocks one after the other.                     *)

LEMMA BlockFacts ==
  ASSUME NEW b \in Bodies, NEW j \in 0..Len(b.blocks)
  PROVE  /\ SumTo(b.blocks, j) \in Nat
         /\ SumTo(Quartets(b), j) \in Nat
         /\ j = 0 => SumTo(b.blocks, j) = 0 /\ SumTo(Quartets(b), j) = 0
         /\ j # 0 =>
              /\ b.blocks[j] \in Nat
              /\ SumTo(b.blocks, j) = SumTo(b.blocks, j - 1) + b.blocks[j]
              /\ SumTo(Quartets(b), j) =
                   SumTo(Quartets(b), j - 1) + (b.blocks[j] + 2) \div 3
<1> DEFINE n == Len(b.blocks)
           B == b.blocks
           Q == Quartets(b)
<1>1. /\ n \in Nat
      /\ \A i \in 1..n : B[i] \in Nat
      /\ \A i \in 1..n : Q[i] = (B[i] + 2) \div 3
  BY BodyFacts DEF Quartets, QuartetsOfBlock
<1> HIDE DEF n, B, Q
<1>2. \A i \in 1..n : Q[i] \in Nat
  <2>1. ASSUME NEW i \in 1..n, NEW x \in Nat, x = B[i]
        PROVE  Q[i] \in Nat
    BY <1>1, <2>1
  <2>2. QED
    BY <1>1, <2>1
<1>3. j \in 0..n /\ j \in Nat /\ \A i \in 1..j : i \in 1..n
  BY <1>1 DEF n
<1>4. ASSUME NEW i \in 0..n
      PROVE  SumTo(B, i) \in Nat /\ SumTo(Q, i) \in Nat
  <2>1. i \in Nat /\ \A k \in 1..i : B[k] \in Nat /\ Q[k] \in Nat
    BY <1>1, <1>2
  <2>2. QED
    BY <2>1, SumToNat
<1>5. ASSUME j = 0
      PROVE  SumTo(B, j) = 0 /\ SumTo(Q, j) = 0
  BY <1>3, <1>5, SumToStep
<1>6. ASSUME j # 0
      PROVE  /\ B[j] \in Nat
             /\ SumTo(B, j) = SumTo(B, j - 1) + B[j]
             /\ SumTo(Q, j) = SumTo(Q, j - 1) + (B[j] + 2) \div 3
  <2>1. j \in 1..n /\ j - 1 \in 0..n
    BY <1>1, <1>3, <1>6
  <2>2. /\ SumTo(B, j) = B[j] + SumTo(B, j - 1)
        /\ SumTo(Q, j) = Q[j] + SumTo(Q, j - 1)
    BY <1>3, <1>6, SumToStep
  <2>3. /\ B[j] \in Nat /\ Q[j] \in Nat /\ Q[j] = (B[j] + 2) \div 3
        /\ SumTo(B, j - 1) \in Nat /\ SumTo(Q, j - 1) \in Nat
    BY <1>1, <1>2, <1>4, <2>1
  <2>4. /\ SumTo(B, j) = SumTo(B, j - 1) + B[j]
        /\ SumTo(Q, j) = SumTo(Q, j - 1) + Q[j]
    BY <2>2, <2>3
  <2>5. QED
    BY <2>3, <2>4
<1>7. QED
  BY <1>3, <1>4, <1>5, <1>6 DEF B, Q, n

(* A block has at most three octets a quartet. *)
LEMMA BlocksOrdered ==
  ASSUME NEW b \in Bodies, NEW i \in 0..Len(b.blocks), NEW j \in i..Len(b.blocks)
  PROVE  /\ SumTo(Quartets(b), i) <= SumTo(Quartets(b), j)
         /\ SumTo(b.blocks, i) <= SumTo(b.blocks, j)
         /\ SumTo(b.blocks, j) - SumTo(b.blocks, i)
              <= 3 * (SumTo(Quartets(b), j) - SumTo(Quartets(b), i))
<1> DEFINE n == Len(b.blocks)
           B(k) == SumTo(b.blocks, k)
           Q(k) == SumTo(Quartets(b), k)
           Ordered(k) == /\ Q(i) <= Q(k) /\ B(i) <= B(k)
                         /\ B(k) - B(i) <= 3 * (Q(k) - Q(i))
<1>1. /\ n \in Nat
      /\ \A k \in 0..n : B(k) \in Nat /\ Q(k) \in Nat
      /\ \A k \in 1..n :
           /\ B(k - 1) \in Nat /\ Q(k - 1) \in Nat
           /\ \E x \in Nat : B(k) = B(k - 1) + x /\ Q(k) = Q(k - 1) + (x + 2) \div 3
  <2>1. n \in Nat
    BY BodyFacts
  <2>2. ASSUME NEW k \in 0..n
        PROVE  B(k) \in Nat /\ Q(k) \in Nat
    BY BlockFacts
  <2>3. ASSUME NEW k \in 1..n
        PROVE  \E x \in Nat : B(k) = B(k - 1) + x /\ Q(k) = Q(k - 1) + (x + 2) \div 3
    <3>1. k \in 0..n /\ k # 0
      BY <2>1
    <3>2. QED
      BY <3>1, BlockFacts
  <2>4. \A k \in 1..n : k - 1 \in 0..n
    BY <2>1
  <2> HIDE DEF B, Q, n
  <2>5. QED
    BY <2>1, <2>2, <2>3, <2>4
<1>2. i \in 0..n /\ j \in i..n
  BY DEF n
<1> HIDE DEF n, B, Q
<1>3. ASSUME ~Ordered(j)
      PROVE  FALSE
  <2> DEFINE C == {k \in i..n : ~Ordered(k)}
  <2>1. C \in SUBSET Nat /\ C # {}
    <3>1. \A k \in i..n : k \in Nat
      BY <1>1, <1>2
    <3> HIDE DEF Ordered
    <3>2. j \in C
      BY <1>2, <1>3
    <3>3. QED
      BY <3>1, <3>2
  <2>2. PICK k \in C : \A d \in C : k <= d
    BY <2>1, LeastElement
  <2>3. k \in i..n /\ ~Ordered(k)
    BY <2>2
  <2>4. Ordered(i)
    <3>1. ASSUME NEW x \in Nat, NEW y \in Nat
          PROVE  x <= x /\ y <= y /\ y - y <= 3 * (x - x)
      OBVIOUS
    <3>2. QED
      BY <1>1, <1>2, <3>1
  <2>5. k # i /\ k - 1 \in i..n /\ ~(k <= k - 1) /\ k \in 1..n
    <3>1. k # i
      BY <2>3, <2>4
    <3> HIDE DEF Ordered
    <3>2. QED
      BY <1>1, <1>2, <2>3, <3>1
  <2>6. Ordered(k - 1)
    <3> HIDE DEF Ordered
    <3>1. k - 1 \notin C
      BY <2>2, <2>5
    <3>2. QED
      BY <2>5, <3>1
  <2>7. PICK x \in Nat : B(k) = B(k - 1) + x /\ Q(k) = Q(k - 1) + (x + 2) \div 3
    BY <1>1, <2>5
  <2>8. ASSUME NEW bi \in Nat, NEW qi \in Nat, NEW bk \in Nat, NEW qk \in Nat,
               qi <= qk, bi <= bk, bk - bi <= 3 * (qk - qi)
        PROVE  /\ qi <= qk + (x + 2) \div 3 /\ bi <= bk + x
               /\ (bk + x) - bi <= 3 * ((qk + (x + 2) \div 3) - qi)
    <3>1. PICK y \in Nat : y = (x + 2) \div 3 /\ x <= 3 * y
      OBVIOUS
    <3>2. QED
      BY <2>8, <3>1
  <2>9. Ordered(k)
    <3>1. B(i) \in Nat /\ Q(i) \in Nat /\ B(k - 1) \in Nat /\ Q(k - 1) \in Nat
      BY <1>1, <1>2, <2>5
    <3>2. /\ Q(i) <= Q(k - 1) /\ B(i) <= B(k - 1)
          /\ B(k - 1) - B(i) <= 3 * (Q(k - 1) - Q(i))
      BY <2>6
    <3> DEFINE y == (x + 2) \div 3
    <3> HIDE DEF y, Ordered, C
    <3>3. /\ Q(i) <= Q(k - 1) + y /\ B(i) <= B(k - 1) + x
          /\ (B(k - 1) + x) - B(i) <= 3 * ((Q(k - 1) + y) - Q(i))
      BY ONLY <2>8, <3>1, <3>2 DEF y
    <3>4. B(k) = B(k - 1) + x /\ Q(k) = Q(k - 1) + y
      BY <2>7 DEF y
    <3>5. QED
      BY <3>3, <3>4 DEF Ordered
  <2>10. QED
    BY <2>3, <2>9
<1>4. QED
  BY <1>3 DEF B, Q

LEMMA BlockOfIs ==
  ASSUME NEW b \in Bodies, NEW q \in 1..QuartetCount(b)
  PROVE  /\ BlockOf(b, q) \in 1..Len(b.blocks)
         /\ SumTo(Quartets(b), BlockOf(b, q) - 1) < q
         /\ q <= SumTo(Quartets(b), BlockOf(b, q))
<1> DEFINE n == Len(b.blocks)
           Q(k) == SumTo(Quartets(b), k)
           C == {k \in 0..n : q <= Q(k)}
<1>1. /\ n \in Nat
      /\ \A k \in 0..n : Q(k) \in Nat
      /\ Q(0) = 0 /\ QuartetCount(b) = Q(n)
  BY BodyFacts, BlockFacts DEF QuartetCount
<1> HIDE DEF n, Q
<1>2. q \in Nat /\ q >= 1 /\ q <= Q(n)
  <2>1. Q(n) \in Nat
    BY <1>1
  <2>2. QED
    BY <1>1, <2>1
<1>3. C \in SUBSET Nat /\ C # {}
  <2>1. n \in C
    BY <1>1, <1>2
  <2>2. QED
    BY <2>1
<1>4. PICK j \in C : \A d \in C : j <= d
  BY <1>3, LeastElement
<1>5. j \in 0..n /\ q <= Q(j)
  BY <1>4
<1>6. j # 0
  BY <1>1, <1>2, <1>5
<1>7. j \in 1..n /\ j - 1 \in 0..n /\ ~(j <= j - 1)
  BY <1>1, <1>5, <1>6
<1>8. Q(j - 1) < q
  <2>1. j - 1 \notin C
    BY <1>4, <1>7
  <2>2. ~(q <= Q(j - 1)) /\ Q(j - 1) \in Nat
    BY <1>1, <1>7, <2>1
  <2>3. QED
    BY <1>2, <2>2
<1>9. \E k \in 1..n : Q(k - 1) < q /\ q <= Q(k)
  BY <1>5, <1>7, <1>8
<1>10. QED
  BY <1>9 DEF BlockOf, n, Q

(* Where a quartet's octets start, and where its predecessor's end. *)
First(b, q) == SumTo(b.blocks, BlockOf(b, q) - 1)
                 + 3 * (q - SumTo(Quartets(b), BlockOf(b, q) - 1) - 1)
Reach(b, q) == IF q = 0 THEN 0 ELSE First(b, q) + Len(Octets(b, q))

LEMMA OctetsAre ==
  ASSUME NEW b \in Bodies, NEW q \in 1..QuartetCount(b)
  PROVE  /\ First(b, q) \in Nat
         /\ Octets(b, q) \in Seq(Nat)
         /\ Len(Octets(b, q)) \in 1..3
         /\ \A i \in 1..Len(Octets(b, q)) : Octets(b, q)[i] = First(b, q) + i - 1
         /\ Len(Octets(b, q)) =
              LET left == SumTo(b.blocks, BlockOf(b, q)) - First(b, q)
              IN  IF left < 3 THEN left ELSE 3
<1> DEFINE j == BlockOf(b, q)
           n == Len(b.blocks)
           B(k) == SumTo(b.blocks, k)
           Q(k) == SumTo(Quartets(b), k)
<1>1. /\ j \in 1..n /\ n \in Nat
      /\ Q(j - 1) < q /\ q <= Q(j)
  BY BlockOfIs, BodyFacts
<1>2. /\ B(j - 1) \in Nat /\ B(j) \in Nat /\ Q(j - 1) \in Nat /\ Q(j) \in Nat
      /\ b.blocks[j] \in Nat
      /\ B(j) = B(j - 1) + b.blocks[j]
      /\ Q(j) = Q(j - 1) + (b.blocks[j] + 2) \div 3
  <2>1. j \in 0..n /\ j - 1 \in 0..n /\ j # 0
    BY <1>1
  <2> HIDE DEF j
  <2>2. QED
    BY <2>1, BlockFacts
<1>3. q \in Nat
  <2>1. QuartetCount(b) \in Nat
    <3>1. n \in 0..n
      BY <1>1
    <3>2. QED
      BY <3>1, BlockFacts DEF QuartetCount
  <2>2. QED
    BY <2>1
<1> DEFINE left == b.blocks[j] - 3 * (q - Q(j - 1) - 1)
           size == IF left < 3 THEN left ELSE 3
<1>4. First(b, q) = B(j - 1) + 3 * (q - Q(j - 1) - 1)
  BY DEF First
<1>5. Octets(b, q) = [i \in 1..size |-> B(j - 1) + 3 * (q - Q(j - 1) - 1) + i - 1]
  BY DEF Octets
<1>6. ASSUME NEW bb \in Nat, NEW qb \in Nat, NEW qe \in Nat, NEW x \in Nat,
             qb < q, q <= qe, qe = qb + (x + 2) \div 3
      PROVE  /\ x - 3 * (q - qb - 1) \in Nat \ {0}
             /\ bb + 3 * (q - qb - 1) \in Nat
             /\ (bb + x) - (bb + 3 * (q - qb - 1)) = x - 3 * (q - qb - 1)
  <2>1. PICK y \in Nat : y = (x + 2) \div 3 /\ 3 * y <= x + 2
    OBVIOUS
  <2>2. QED
    BY <1>3, <1>6, <2>1
<1>7. /\ left \in Nat \ {0}
      /\ First(b, q) \in Nat
      /\ B(j) - First(b, q) = left
  <2> DEFINE bb == B(j - 1)
             qb == Q(j - 1)
             qe == Q(j)
             x  == b.blocks[j]
  <2>1. /\ bb \in Nat /\ qb \in Nat /\ qe \in Nat /\ x \in Nat
        /\ qb < q /\ q <= qe /\ qe = qb + (x + 2) \div 3
        /\ B(j) = bb + x /\ left = x - 3 * (q - qb - 1)
        /\ First(b, q) = bb + 3 * (q - qb - 1)
    BY <1>1, <1>2, <1>4
  <2> HIDE DEF bb, qb, qe, x, left, B
  <2>2. /\ x - 3 * (q - qb - 1) \in Nat \ {0}
        /\ bb + 3 * (q - qb - 1) \in Nat
        /\ (bb + x) - (bb + 3 * (q - qb - 1)) = x - 3 * (q - qb - 1)
    BY <1>6, <2>1
  <2>3. QED
    BY <2>1, <2>2
<1> HIDE DEF left
<1>8. size \in 1..3
  BY <1>7
<1> HIDE DEF size, j, B, Q
<1>9. Octets(b, q) = [i \in 1..size |-> First(b, q) + i - 1]
  BY <1>4, <1>5
<1>10. /\ Octets(b, q) \in Seq(Nat)
       /\ Len(Octets(b, q)) = size
       /\ \A i \in 1..size : Octets(b, q)[i] = First(b, q) + i - 1
  BY <1>7, <1>8, <1>9
<1>11. size = LET rest == SumTo(b.blocks, BlockOf(b, q)) - First(b, q)
              IN  IF rest < 3 THEN rest ELSE 3
  BY <1>7 DEF size, B, j
<1>12. QED
  BY <1>7, <1>8, <1>10, <1>11

(* A quartet goes on where the one before it ends, and the last one ends
   with the last block. *)
LEMMA OctetsFollow ==
  ASSUME NEW b \in Bodies, NEW q \in 1..QuartetCount(b)
  PROVE  /\ First(b, q) = Reach(b, q - 1)
         /\ Reach(b, q) \in Nat
         /\ Reach(b, q) = First(b, q) + Len(Octets(b, q))
         /\ Reach(b, q) <= SumTo(b.blocks, Len(b.blocks))
         /\ q = QuartetCount(b) => Reach(b, q) = SumTo(b.blocks, Len(b.blocks))
<1> DEFINE n == Len(b.blocks)
           B(k) == SumTo(b.blocks, k)
           Q(k) == SumTo(Quartets(b), k)
           At(p, j) == /\ j \in 1..n
                       /\ Q(j - 1) < p /\ p <= Q(j)
                       /\ First(b, p) = B(j - 1) + 3 * (p - Q(j - 1) - 1)
                       /\ \E x \in Nat : /\ B(j) = B(j - 1) + x
                                         /\ Q(j) = Q(j - 1) + (x + 2) \div 3
                       /\ Len(Octets(b, p)) = IF B(j) - First(b, p) < 3
                                              THEN B(j) - First(b, p) ELSE 3
<1>1. /\ n \in Nat /\ QuartetCount(b) = Q(n)
      /\ \A k \in 0..n : B(k) \in Nat /\ Q(k) \in Nat
      /\ B(0) = 0 /\ Q(0) = 0
  <2>1. n \in Nat /\ QuartetCount(b) = Q(n)
    BY BodyFacts DEF QuartetCount
  <2>2. \A k \in 0..n : B(k) \in Nat /\ Q(k) \in Nat
    BY BlockFacts
  <2>3. B(0) = 0 /\ Q(0) = 0
    <3>1. 0 \in 0..n
      BY <2>1
    <3>2. QED
      BY <3>1, BlockFacts
  <2>4. QED
    BY <2>1, <2>2, <2>3
<1>2. \A i \in 0..n : \A j \in i..n :
        Q(i) <= Q(j) /\ B(i) <= B(j) /\ B(j) - B(i) <= 3 * (Q(j) - Q(i))
  BY BlocksOrdered
<1>3. ASSUME NEW p \in 1..QuartetCount(b)
      PROVE  At(p, BlockOf(b, p))
  <2> DEFINE j == BlockOf(b, p)
  <2>1. j \in 1..n /\ Q(j - 1) < p /\ p <= Q(j)
    BY BlockOfIs
  <2>2. \E x \in Nat : B(j) = B(j - 1) + x /\ Q(j) = Q(j - 1) + (x + 2) \div 3
    <3>1. j \in 0..n /\ j # 0
      BY <1>1, <2>1
    <3> HIDE DEF j
    <3>2. QED
      BY <3>1, BlockFacts
  <2>3. Len(Octets(b, p)) = IF B(j) - First(b, p) < 3 THEN B(j) - First(b, p) ELSE 3
    BY OctetsAre
  <2>4. First(b, p) = B(j - 1) + 3 * (p - Q(j - 1) - 1)
    BY DEF First
  <2>5. QED
    BY <2>1, <2>2, <2>3, <2>4
<1>4. /\ \A p \in 1..QuartetCount(b) : First(b, p) \in Nat /\ Len(Octets(b, p)) \in 1..3
      /\ q \in 1..QuartetCount(b) /\ QuartetCount(b) \in Nat
  <2>1. QuartetCount(b) \in Nat
    BY <1>1
  <2>2. QED
    BY <2>1, OctetsAre
<1> HIDE DEF n, B, Q
<1>5. ASSUME NEW p \in 1..QuartetCount(b), NEW j, At(p, j)
      PROVE  /\ First(b, p) + Len(Octets(b, p)) <= B(j)
             /\ p = Q(j) => First(b, p) + Len(Octets(b, p)) = B(j)
             /\ p < Q(j) => First(b, p) + Len(Octets(b, p)) = B(j - 1) + 3 * (p - Q(j - 1))
  <2>1. PICK x \in Nat : B(j) = B(j - 1) + x /\ Q(j) = Q(j - 1) + (x + 2) \div 3
    BY <1>5
  <2>2. PICK y \in Nat : y = (x + 2) \div 3 /\ 3 * y <= x + 2 /\ x <= 3 * y
    OBVIOUS
  <2> DEFINE bb == B(j - 1)
             qb == Q(j - 1)
             f  == First(b, p)
             l  == Len(Octets(b, p))
  <2>3. /\ bb \in Nat /\ qb \in Nat /\ f \in Nat /\ l \in Nat
        /\ qb < p /\ p <= qb + y /\ f = bb + 3 * (p - qb - 1)
        /\ B(j) = bb + x /\ Q(j) = qb + y
        /\ l = IF bb + x - f < 3 THEN bb + x - f ELSE 3
        /\ p \in Nat
    <3>1. j \in 1..n /\ j - 1 \in 0..n
      BY <1>1, <1>5
    <3>2. bb \in Nat /\ qb \in Nat
      BY <1>1, <3>1
    <3>3. f \in Nat /\ l \in 1..3 /\ l \in Nat /\ p \in Nat
      BY <1>4
    <3>4. /\ B(j) = bb + x /\ Q(j) = qb + y
      BY <2>1, <2>2
    <3>5. qb < p /\ p <= qb + y /\ f = bb + 3 * (p - qb - 1)
      BY <1>5, <3>4
    <3>6. l = IF bb + x - f < 3 THEN bb + x - f ELSE 3
      <4>1. l = IF B(j) - f < 3 THEN B(j) - f ELSE 3
        BY <1>5
      <4>2. (bb + x) - f = bb + x - f
        BY <3>2, <3>3
      <4>3. QED
        BY <3>4, <4>1, <4>2
    <3>7. QED
      BY <3>2, <3>3, <3>4, <3>5, <3>6
  <2> HIDE DEF bb, qb, f, l
  <2>4. f + l <= bb + x
    BY <2>2, <2>3
  <2>5. p = qb + y => f + l = bb + x
    BY <2>2, <2>3
  <2>6. p < qb + y => f + l = bb + 3 * (p - qb)
    BY <2>2, <2>3
  <2>7. QED
    BY <2>3, <2>4, <2>5, <2>6 DEF f, l, bb, qb
<1>6. Reach(b, q) = First(b, q) + Len(Octets(b, q)) /\ Reach(b, q) \in Nat
  <2>1. q # 0
    BY <1>4
  <2>2. Reach(b, q) = First(b, q) + Len(Octets(b, q))
    BY <2>1 DEF Reach
  <2>3. QED
    BY <1>4, <2>2
<1> DEFINE j == BlockOf(b, q)
<1>7. At(q, j)
  BY <1>3
<1> HIDE DEF j
<1>8. j \in 1..n /\ j - 1 \in 0..n /\ j \in 0..n /\ n \in j..n
  BY <1>1, <1>7
<1>9. Reach(b, q) <= B(n)
  <2>1. First(b, q) + Len(Octets(b, q)) <= B(j)
    BY <1>5, <1>7
  <2>2. B(j) <= B(n)
    BY <1>2, <1>8
  <2>3. B(j) \in Nat /\ B(n) \in Nat
    BY <1>1, <1>8
  <2>4. QED
    BY <1>6, <2>1, <2>2, <2>3
<1>10. ASSUME q = QuartetCount(b)
       PROVE  Reach(b, q) = B(n)
  <2>1. /\ q = Q(n) /\ q <= Q(j) /\ Q(j) <= Q(n)
        /\ B(j) <= B(n) /\ B(n) - B(j) <= 3 * (Q(n) - Q(j))
    BY <1>1, <1>2, <1>7, <1>8, <1>10
  <2>2. B(j) \in Nat /\ B(n) \in Nat /\ Q(j) \in Nat /\ Q(n) \in Nat
    BY <1>1, <1>8
  <2>3. q = Q(j) /\ B(j) = B(n)
    BY <2>1, <2>2
  <2>4. First(b, q) + Len(Octets(b, q)) = B(j)
    <3>1. q = Q(j) => First(b, q) + Len(Octets(b, q)) = B(j)
      BY <1>5, <1>7
    <3>2. QED
      BY <2>3, <3>1
  <2>5. QED
    BY <1>6, <2>3, <2>4
<1>11. First(b, q) = Reach(b, q - 1)
  <2>1. /\ j \in 1..n /\ Q(j - 1) < q /\ q <= Q(j)
        /\ First(b, q) = B(j - 1) + 3 * (q - Q(j - 1) - 1)
    BY <1>7
  <2>2. q \in Nat /\ Q(j - 1) \in Nat /\ B(j - 1) \in Nat /\ Q(j) \in Nat
    BY <1>1, <1>4, <1>8
  <2>3. CASE q = 1
    <3>1. Q(j - 1) = 0
      BY <2>1, <2>2, <2>3
    <3>2. B(j - 1) = 0
      <4>1. 0 \in 0..n /\ j - 1 \in 0..n
        BY <1>8
      <4>2. B(j - 1) - B(0) <= 3 * (Q(j - 1) - Q(0))
        BY <1>2, <4>1
      <4>3. QED
        BY <1>1, <2>2, <3>1, <4>2
    <3>3. First(b, q) = 0
      BY <2>1, <2>3, <3>1, <3>2
    <3>4. QED
      BY <2>3, <3>3 DEF Reach
  <2>4. CASE q # 1
    <3> DEFINE p == q - 1
               i == BlockOf(b, p)
    <3>1. p \in 1..QuartetCount(b) /\ p # 0 /\ p = q - 1 /\ p \in Nat
      BY <1>4, <2>4
    <3> HIDE DEF p
    <3>2. At(p, i)
      BY <1>3, <3>1
    <3> HIDE DEF i
    <3>3. Reach(b, p) = First(b, p) + Len(Octets(b, p))
      BY <3>1 DEF Reach
    <3>4. /\ i \in 1..n /\ i \in 0..n /\ i - 1 \in 0..n
          /\ Q(i - 1) < p /\ p <= Q(i)
      BY <1>1, <3>2
    <3>5. Q(i) \in Nat /\ Q(i - 1) \in Nat /\ B(i) \in Nat /\ B(i - 1) \in Nat
      BY <1>1, <3>4
    <3>6. CASE p = Q(i)
      <4>1. Reach(b, p) = B(i)
        <5>1. p = Q(i) => First(b, p) + Len(Octets(b, p)) = B(i)
          BY <1>5, <3>1, <3>2
        <5>2. QED
          BY <3>3, <3>6, <5>1
      <4>2. i <= j - 1
        <5>1. ASSUME j <= i
              PROVE  FALSE
          <6>1. i \in j..n
            BY <1>8, <3>4, <5>1
          <6>2. Q(j) <= Q(i)
            BY <1>2, <1>8, <6>1
          <6>3. QED
            BY <2>1, <2>2, <3>1, <3>5, <3>6, <6>2
        <5>2. QED
          BY <1>8, <3>4, <5>1
      <4>3. /\ Q(i) <= Q(j - 1) /\ B(i) <= B(j - 1)
            /\ B(j - 1) - B(i) <= 3 * (Q(j - 1) - Q(i))
        <5>1. j - 1 \in i..n
          BY <1>8, <3>4, <4>2
        <5>2. QED
          BY <1>2, <3>4, <5>1
      <4>4. Q(j - 1) = p /\ B(j - 1) = B(i)
        <5> DEFINE qj == Q(j - 1)
                   bj == B(j - 1)
                   qi == Q(i)
                   bi == B(i)
        <5>1. /\ qj \in Nat /\ bj \in Nat /\ qi \in Nat /\ bi \in Nat
              /\ qj < q /\ q = p + 1 /\ p = qi /\ qi <= qj /\ bi <= bj
              /\ bj - bi <= 3 * (qj - qi)
          BY <2>1, <2>2, <3>1, <3>5, <3>6, <4>3
        <5> HIDE DEF qj, bj, qi, bi
        <5>2. qj = p
          BY <3>1, <5>1
        <5>3. bj = bi
          BY <5>1, <5>2
        <5>4. QED
          BY <5>2, <5>3 DEF qj, bj, bi
      <4>5. First(b, q) = B(i)
        BY <2>1, <2>2, <3>1, <4>4
      <4>6. QED
        BY <4>1, <4>5 DEF p
    <3>7. CASE p # Q(i)
      <4>1. p < Q(i)
        BY <3>1, <3>4, <3>5, <3>7
      <4>2. Reach(b, p) = B(i - 1) + 3 * (p - Q(i - 1))
        <5>1. p < Q(i) => First(b, p) + Len(Octets(b, p)) = B(i - 1) + 3 * (p - Q(i - 1))
          BY <1>5, <3>1, <3>2
        <5>2. QED
          BY <3>3, <4>1, <5>1
      <4>3. i = j
        <5>1. ASSUME i < j
              PROVE  FALSE
          <6>1. j - 1 \in i..n
            BY <1>8, <3>4, <5>1
          <6>2. Q(i) <= Q(j - 1)
            BY <1>2, <3>4, <6>1
          <6>3. QED
            BY <2>1, <2>2, <3>1, <3>5, <4>1, <6>2
        <5>2. ASSUME j < i
              PROVE  FALSE
          <6>1. i - 1 \in j..n
            BY <1>8, <3>4, <5>2
          <6>2. Q(j) <= Q(i - 1)
            BY <1>2, <1>8, <6>1
          <6>3. QED
            BY <2>1, <2>2, <3>1, <3>4, <3>5, <6>2
        <5>3. QED
          BY <1>8, <3>4, <5>1, <5>2
      <4>4. First(b, q) = B(i - 1) + 3 * (p - Q(i - 1))
        <5>1. q - Q(j - 1) - 1 = p - Q(j - 1)
          BY <2>2, <3>1
        <5>2. QED
          BY <2>1, <4>3, <5>1
      <4>5. QED
        BY <4>2, <4>4 DEF p
    <3>8. QED
      BY <3>6, <3>7
  <2>5. QED
    BY <2>3, <2>4
<1>12. QED
  BY <1>6, <1>9, <1>10, <1>11 DEF B, n

-----------------------------------------------------------------------------
(* The invariant.  What has been read is the text up to a place, or the     *)
(* octets up to it; the decoder holds what follows the last quartet decoded *)
(* and the last frame taken; the frames that this Push has found follow     *)
(* those that the result sums up.                                           *)

(* Consecutive positions. *)
Run(s, from) == s \in Seq(Nat) /\ \A i \in 1..Len(s) : s[i] = from + i - 1

Causes == {"none", "request", "response", "decode", "parse", "sequence", "read",
           "incomplete", "count", "trailer", "status"}

TypeInv ==
  /\ body \in Bodies
  /\ cancel_after \in CancelAfters
  /\ pc \in {"start", "read", "decode", "consume", "judge", "done"}
  /\ received \in 0..Length(body)
  /\ readErr \in {"none", "eof", "failed"}
  /\ encoded \in Seq(Nat)
  /\ binary \in Seq(Nat)
  /\ frames \in Seq(Frames)
  /\ result \in [Error : Causes, Cancelled : BOOLEAN, DataFrames : Nat,
                 seenTrailer : BOOLEAN, status_ok : BOOLEAN]

(* Quartets decoded, octets that they gave, octets taken as frames. *)
Taken    == (received - Len(encoded)) \div 4
Reached  == IF body.text THEN Reach(body, Taken) ELSE received
Consumed == Reached - Len(binary)

TextInv ==
  /\ body.text => /\ Len(encoded) <= received
                  /\ received - Len(encoded) = 4 * Taken
                  /\ Run(encoded, 4 * Taken)
  /\ ~body.text => encoded = << >>

BinaryInv == Len(binary) <= Reached /\ Run(binary, Consumed)

(* Octets that start no frame of the body. *)
NoFrame == [trailer |-> FALSE, size |-> HeaderSize, good |-> FALSE, sequence |-> 0]
FrameAt(k) == IF k <= Len(body.frames) THEN body.frames[k] ELSE NoFrame

(* The result sums up the first m frames. *)
SumsUp(m) ==
  /\ result.DataFrames = DataCount(body, m)
  /\ \A k \in 1..m :
       ~body.frames[k].trailer =>
         body.frames[k].good /\ body.frames[k].sequence = DataCount(body, k)
  /\ result.seenTrailer =>
       \E k \in 1..m :
         /\ body.frames[k].trailer /\ (result.status_ok <=> body.frames[k].good)
         /\ \A i \in (k + 1)..m : ~body.frames[i].trailer
  /\ ~result.seenTrailer => \A k \in 1..m : ~body.frames[k].trailer

(* The frames of this Push come after the first m. *)
Pending(m) ==
  /\ \A i \in 1..Len(frames) : frames[i] = FrameAt(m + i)
  /\ m + Len(frames) <= Len(body.frames) =>
       Consumed = StartOf(body, m + Len(frames) + 1)
  /\ m + Len(frames) > Len(body.frames) => Consumed > Whole(body)

InStep == \E m \in 0..Len(body.frames) : SumsUp(m) /\ Pending(m)

RunningInv ==
  pc # "done" =>
    /\ InStep
    /\ result.Error = "none" /\ ~result.Cancelled
    /\ cancel_after > 0 => result.DataFrames < cancel_after
    /\ readErr = "eof" => received = Length(body)

PhaseInv ==
  /\ pc \in {"start", "read", "decode"} => frames = << >>
  /\ pc \in {"start", "read", "consume", "judge"} => Len(encoded) < 4
  /\ pc \in {"start", "read", "judge"} => ~HasFrame
  /\ pc = "decode" => body.text

VerdictInv == PassedMeansWhole /\ CancelledOnOrder /\ FailsForCause

IInv == TypeInv /\ TextInv /\ BinaryInv /\ RunningInv /\ PhaseInv /\ VerdictInv

LEMMA RunConcat ==
  ASSUME NEW s, NEW t, NEW a \in Nat, Run(s, a), Run(t, a + Len(s))
  PROVE  Run(s \o t, a) /\ Len(s \o t) = Len(s) + Len(t)
<1>1. s \in Seq(Nat) /\ t \in Seq(Nat) /\ Len(s) \in Nat /\ Len(t) \in Nat
  BY DEF Run
<1>2. /\ s \o t \in Seq(Nat)
      /\ Len(s \o t) = Len(s) + Len(t)
      /\ \A i \in 1..(Len(s) + Len(t)) :
           (s \o t)[i] = IF i <= Len(s) THEN s[i] ELSE t[i - Len(s)]
  BY <1>1, ConcatProperties
<1>3. ASSUME NEW i \in 1..(Len(s) + Len(t))
      PROVE  (s \o t)[i] = a + i - 1
  <2>1. CASE i <= Len(s)
    <3>1. i \in 1..Len(s)
      BY <1>1, <2>1
    <3>2. QED
      BY <1>2, <2>1, <3>1 DEF Run
  <2>2. CASE ~(i <= Len(s))
    <3>1. i - Len(s) \in 1..Len(t)
      BY <1>1, <2>2
    <3>2. t[i - Len(s)] = (a + Len(s)) + (i - Len(s)) - 1
      BY <3>1 DEF Run
    <3>3. (s \o t)[i] = t[i - Len(s)]
      BY <1>2, <2>2
    <3>4. (a + Len(s)) + (i - Len(s)) - 1 = a + i - 1
      BY <1>1
    <3>5. QED
      BY <3>2, <3>3, <3>4
  <2>3. QED
    BY <2>1, <2>2
<1>4. QED
  BY <1>2, <1>3 DEF Run

LEMMA RunDrop ==
  ASSUME NEW s, NEW a \in Nat, Run(s, a), NEW n \in 0..Len(s)
  PROVE  /\ Run(SubSeq(s, n + 1, Len(s)), a + n)
         /\ Len(SubSeq(s, n + 1, Len(s))) = Len(s) - n
<1>1. s \in Seq(Nat) /\ Len(s) \in Nat /\ n \in Nat /\ n <= Len(s)
  BY DEF Run
<1>2. \A i \in (n + 1)..Len(s) : s[i] \in Nat
  BY <1>1
<1>3. /\ SubSeq(s, n + 1, Len(s)) \in Seq(Nat)
      /\ Len(SubSeq(s, n + 1, Len(s))) =
           IF n + 1 <= Len(s) THEN Len(s) - (n + 1) + 1 ELSE 0
      /\ \A i \in 1..(Len(s) - (n + 1) + 1) :
           SubSeq(s, n + 1, Len(s))[i] = s[n + 1 + i - 1]
  <2>1. n + 1 \in Int /\ Len(s) \in Int
    BY <1>1
  <2>2. QED
    BY <1>2, <2>1, SubSeqProperties
<1>4. Len(SubSeq(s, n + 1, Len(s))) = Len(s) - n
  BY <1>1, <1>3
<1>5. ASSUME NEW i \in 1..(Len(s) - n)
      PROVE  SubSeq(s, n + 1, Len(s))[i] = (a + n) + i - 1
  <2>1. /\ i \in 1..(Len(s) - (n + 1) + 1) /\ n + 1 + i - 1 = n + i
        /\ n + i \in 1..Len(s) /\ a + (n + i) - 1 = (a + n) + i - 1
    BY <1>1
  <2>2. s[n + i] = a + (n + i) - 1
    BY <2>1 DEF Run
  <2>3. SubSeq(s, n + 1, Len(s))[i] = s[n + 1 + i - 1]
    BY <1>3, <2>1
  <2>4. QED
    BY <2>1, <2>2, <2>3
<1>6. QED
  BY <1>3, <1>4, <1>5 DEF Run

(* The text's quartets, in the decoder's buffer. *)
LEMMA QuartetIs ==
  ASSUME NEW q \in Nat, Run(encoded, 4 * q), NEW t \in Nat, t # 0,
         4 * t <= Len(encoded)
  PROVE  4 * t \in 1..Len(encoded) /\ Quartet(encoded[4 * t]) = q + t
<1>1. 4 * t \in 1..Len(encoded)
  BY DEF Run
<1>2. encoded[4 * t] = 4 * q + 4 * t - 1
  BY <1>1 DEF Run
<1>3. (4 * q + 4 * t - 1) \div 4 = q + t - 1
  OBVIOUS
<1>4. QED
  BY <1>1, <1>2, <1>3 DEF Quartet

(* The function that DecodedTo defines by recursion. *)
Decodes(f, n) ==
  f = [e \in 0..n |-> IF e < 4 THEN << >>
                      ELSE f[e - 4] \o Octets(body, Quartet(encoded[e]))]

LEMMA DecodesExist ==
  ASSUME NEW n \in Nat
  PROVE  \E f : Decodes(f, n)
<1> SUFFICES ASSUME \A f : ~Decodes(f, n)
             PROVE  FALSE
  OBVIOUS
<1> DEFINE C == {m \in Nat : \A f : ~Decodes(f, m)}
           O(e) == Octets(body, Quartet(encoded[e]))
<1> HIDE DEF O
<1>1. C \in SUBSET Nat /\ C # {}
  OBVIOUS
<1>2. PICK m \in C : \A d \in C : m <= d
  BY <1>1, LeastElement
<1>3. ASSUME NEW f, NEW k \in Nat
      PROVE  Decodes(f, k) <=>
               f = [e \in 0..k |-> IF e < 4 THEN << >> ELSE f[e - 4] \o O(e)]
  BY DEF Decodes, O
<1>4. CASE m = 0
  <2> DEFINE g == [e \in 0..0 |-> << >>]
             h == [e \in 0..0 |-> IF e < 4 THEN << >> ELSE g[e - 4] \o O(e)]
  <2>1. g = h
    OBVIOUS
  <2>2. g = [e \in 0..0 |-> IF e < 4 THEN << >> ELSE g[e - 4] \o O(e)]
    BY <2>1
  <2> HIDE DEF g
  <2>3. Decodes(g, 0)
    BY <1>3, <2>2
  <2>4. QED
    BY <1>2, <1>4, <2>3
<1>5. CASE m # 0
  <2>1. m - 1 \in Nat /\ m - 1 \notin C /\ m \in Nat
    BY <1>2, <1>5
  <2>2. PICK f : Decodes(f, m - 1)
    BY <2>1
  <2>3. f = [e \in 0..(m - 1) |-> IF e < 4 THEN << >> ELSE f[e - 4] \o O(e)]
    BY <1>3, <2>1, <2>2
  <2> DEFINE last == IF m < 4 THEN << >> ELSE f[m - 4] \o O(m)
             g == [e \in 0..m |-> IF e = m THEN last ELSE f[e]]
             h == [e \in 0..m |-> IF e < 4 THEN << >> ELSE g[e - 4] \o O(e)]
  <2>4. ASSUME NEW e \in 0..m
        PROVE  g[e] = h[e]
    <3>1. CASE e = m
      <4>1. m >= 4 => m - 4 \in 0..m /\ m - 4 # m
        BY <2>1
      <4>2. m >= 4 => g[m - 4] = f[m - 4]
        BY <4>1
      <4>3. h[e] = IF m < 4 THEN << >> ELSE g[m - 4] \o O(m)
        BY <3>1
      <4>4. g[e] = last
        BY <3>1
      <4> HIDE DEF g, h
      <4>5. QED
        BY <2>1, <4>2, <4>3, <4>4
    <3>2. CASE e # m
      <4>1. e \in 0..(m - 1)
        BY <2>1, <3>2
      <4>2. f[e] = IF e < 4 THEN << >> ELSE f[e - 4] \o O(e)
        BY <2>3, <4>1
      <4>3. e >= 4 => g[e - 4] = f[e - 4]
        <5>1. e >= 4 => e - 4 \in 0..m /\ e - 4 # m
          BY <2>1, <4>1
        <5>2. QED
          BY <5>1
      <4>4. g[e] = f[e] /\ h[e] = IF e < 4 THEN << >> ELSE g[e - 4] \o O(e)
        BY <3>2
      <4> HIDE DEF g, h
      <4>5. QED
        BY <4>1, <4>2, <4>3, <4>4
    <3>3. QED
      BY <3>1, <3>2
  <2>5. g = h
    BY <2>4
  <2>6. g = [e \in 0..m |-> IF e < 4 THEN << >> ELSE g[e - 4] \o O(e)]
    BY <2>5
  <2> HIDE DEF g
  <2>7. Decodes(g, m)
    BY <1>3, <2>1, <2>6
  <2>8. QED
    BY <1>2, <2>7
<1>6. QED
  BY <1>4, <1>5

LEMMA DecodedToIs ==
  ASSUME NEW n \in Nat
  PROVE  \E f : Decodes(f, n) /\ DecodedTo(n) = f[n]
<1>1. \E f : f = [e \in 0..n |-> IF e < 4 THEN << >>
                      ELSE f[e - 4] \o Octets(body, Quartet(encoded[e]))]
  BY DecodesExist DEF Decodes
<1>2. QED
  BY <1>1 DEF DecodedTo, Decodes

(* What a block decodes to goes on where the decoded octets end. *)
LEMMA DecodedRun ==
  ASSUME body \in Bodies, NEW q \in Nat, Run(encoded, 4 * q), NEW t \in Nat,
         4 * t <= Len(encoded), q + t <= QuartetCount(body)
  PROVE  /\ Run(DecodedTo(4 * t), Reach(body, q))
         /\ Reach(body, q) \in Nat
         /\ Reach(body, q) + Len(DecodedTo(4 * t)) = Reach(body, q + t)
<1>1. PICK f : Decodes(f, 4 * t) /\ DecodedTo(4 * t) = f[4 * t]
  <2>1. 4 * t \in Nat
    OBVIOUS
  <2>2. QED
    BY <2>1, DecodedToIs
<1>2. QuartetCount(body) \in Nat
  <2>1. Len(body.blocks) \in 0..Len(body.blocks)
    BY BodyFacts
  <2>2. QED
    BY <2>1, BlockFacts DEF QuartetCount
<1>3. \A p \in 0..QuartetCount(body) : Reach(body, p) \in Nat
  <2>1. Reach(body, 0) = 0
    BY DEF Reach
  <2>2. \A p \in 1..QuartetCount(body) : Reach(body, p) \in Nat
    BY OctetsFollow
  <2>3. \A p \in 0..QuartetCount(body) : p = 0 \/ p \in 1..QuartetCount(body)
    BY <1>2
  <2>4. QED
    BY <2>1, <2>2, <2>3
<1> DEFINE from == Reach(body, q)
           Good(k) == Run(f[4 * k], from) /\ from + Len(f[4 * k]) = Reach(body, q + k)
<1>4. from \in Nat
  BY <1>2, <1>3
<1>5. ASSUME ~Good(t)
      PROVE  FALSE
  <2> DEFINE C == {k \in 0..t : ~Good(k)}
  <2> HIDE DEF Good
  <2>1. C \in SUBSET Nat /\ C # {}
    BY <1>5
  <2>2. PICK k \in C : \A d \in C : k <= d
    BY <2>1, LeastElement
  <2>3. k \in 0..t /\ ~Good(k) /\ k \in Nat
    BY <2>2
  <2>4. 4 * k \in 0..(4 * t)
    BY <2>3
  <2>5. f[4 * k] = IF 4 * k < 4 THEN << >>
                   ELSE f[4 * k - 4] \o Octets(body, Quartet(encoded[4 * k]))
    BY <1>1, <2>4 DEF Decodes
  <2>6. CASE k = 0
    <3>1. f[4 * k] = << >>
      BY <2>5, <2>6
    <3>2. Run(<< >>, from) /\ Len(<< >>) = 0
      BY DEF Run
    <3>3. q + k = q
      BY <2>6
    <3>4. Good(k)
      BY <1>4, <3>1, <3>2, <3>3 DEF Good
    <3>5. QED
      BY <2>3, <3>4
  <2>7. CASE k # 0
    <3>1. k - 1 \in 0..t /\ ~(k <= k - 1) /\ 4 * k - 4 = 4 * (k - 1) /\ ~(4 * k < 4)
      BY <2>3, <2>7
    <3>2. Good(k - 1)
      <4>1. k - 1 \notin C
        BY <2>2, <3>1
      <4>2. QED
        BY <3>1, <4>1
    <3>3. Quartet(encoded[4 * k]) = q + k
      <4>1. 4 * k <= Len(encoded)
        <5>1. Len(encoded) \in Nat
          BY DEF Run
        <5>2. QED
          BY <2>3, <5>1
      <4>2. QED
        BY <2>3, <2>7, <4>1, QuartetIs
    <3> DEFINE o == Octets(body, q + k)
               g == f[4 * (k - 1)]
    <3>4. f[4 * k] = g \o o
      BY <2>5, <3>1, <3>3
    <3>5. q + k \in 1..QuartetCount(body) /\ (q + k) - 1 = q + (k - 1)
      BY <1>2, <2>3, <2>7
    <3>6. /\ First(body, q + k) = Reach(body, q + (k - 1))
          /\ Reach(body, q + k) = First(body, q + k) + Len(o)
      BY <3>5, OctetsFollow
    <3>7. Run(o, First(body, q + k)) /\ Len(o) \in Nat
      BY <3>5, OctetsAre DEF Run
    <3>8. Run(g, from) /\ from + Len(g) = Reach(body, q + (k - 1)) /\ Len(g) \in Nat
      BY <3>2 DEF Good, Run
    <3> HIDE DEF g, o, from
    <3>9. Run(o, from + Len(g))
      BY <3>6, <3>7, <3>8
    <3>10. Run(g \o o, from) /\ Len(g \o o) = Len(g) + Len(o)
      BY <1>4, <3>8, <3>9, RunConcat
    <3>11. from + Len(g \o o) = Reach(body, q + k)
      <4>1. from + (Len(g) + Len(o)) = (from + Len(g)) + Len(o)
        BY <1>4, <3>7, <3>8
      <4>2. QED
        BY <3>6, <3>8, <3>10, <4>1
    <3>12. Good(k)
      BY <3>4, <3>10, <3>11 DEF Good
    <3>13. QED
      BY <2>3, <3>12
  <2>8. QED
    BY <2>6, <2>7
<1>6. QED
  BY <1>1, <1>4, <1>5

(* A block ends with a quartet, and no quartet before that is padded. *)
LEMMA BlockEndIs ==
  ASSUME encoded \in Seq(Nat), Len(encoded) >= 4
  PROVE  /\ \E t \in Nat : BlockEnd = 4 * t
         /\ BlockEnd > 0 /\ BlockEnd <= Complete /\ Complete <= Len(encoded)
         /\ Len(encoded) - Complete < 4
         /\ Complete \in Nat
         /\ \A e \in 1..BlockEnd :
              e % 4 = 0 /\ Padded(body, Quartet(encoded[e])) => e = BlockEnd
<1>1. Len(encoded) \in Nat
  OBVIOUS
<1>2. PICK n \in Nat : n = Len(encoded) \div 4
  BY <1>1
<1>3. /\ Complete = 4 * n /\ Complete <= Len(encoded)
      /\ Len(encoded) - Complete < 4 /\ n >= 1
  BY <1>1, <1>2 DEF Complete
<1> DEFINE PaddedEnds == {e \in 1..Complete :
                      e % 4 = 0 /\ Padded(body, Quartet(encoded[e]))}
<1>4. BlockEnd = IF PaddedEnds = {} THEN Complete
                 ELSE CHOOSE e \in PaddedEnds : \A f \in PaddedEnds : e <= f
  BY DEF BlockEnd
<1>5. CASE PaddedEnds = {}
  <2>1. BlockEnd = Complete
    BY <1>4, <1>5
  <2>2. ASSUME NEW e \in 1..BlockEnd, e % 4 = 0, Padded(body, Quartet(encoded[e]))
        PROVE  e = BlockEnd
    <3>1. e \in PaddedEnds
      BY <2>1, <2>2
    <3>2. QED
      BY <1>5, <3>1
  <2>3. /\ BlockEnd = 4 * n /\ BlockEnd <= Complete /\ Complete \in Nat
        /\ BlockEnd > 0
    BY <1>3, <2>1
  <2>4. QED
    BY <1>3, <2>2, <2>3
<1>6. CASE PaddedEnds # {}
  <2>1. PaddedEnds \in SUBSET Nat
    OBVIOUS
  <2>2. \E e \in PaddedEnds : \A f \in PaddedEnds : e <= f
    <3> HIDE DEF PaddedEnds
    <3>1. QED
      BY <1>6, <2>1, LeastElement
  <2>3. BlockEnd \in PaddedEnds /\ \A f \in PaddedEnds : BlockEnd <= f
    <3> HIDE DEF PaddedEnds
    <3>1. QED
      BY <1>4, <1>6, <2>2
  <2>4. BlockEnd \in 1..Complete /\ BlockEnd % 4 = 0
    BY <2>3
  <2>5. Complete \in Nat
    BY <1>3
  <2>6. \E t \in Nat : BlockEnd = 4 * t
    <3>1. BlockEnd \in Nat /\ BlockEnd = 4 * (BlockEnd \div 4) /\ BlockEnd \div 4 \in Nat
      BY <2>4, <2>5
    <3>2. QED
      BY <3>1
  <2>7. \A e \in 1..BlockEnd :
          e % 4 = 0 /\ Padded(body, Quartet(encoded[e])) => e = BlockEnd
    <3>1. ASSUME NEW e \in 1..BlockEnd, e % 4 = 0, Padded(body, Quartet(encoded[e]))
          PROVE  e = BlockEnd
      <4>1. e \in 1..Complete
        BY <2>4, <2>5
      <4>2. e \in PaddedEnds
        BY <3>1, <4>1
      <4> HIDE DEF PaddedEnds
      <4>3. BlockEnd <= e
        BY <2>3, <4>2
      <4>4. QED
        BY <2>4, <2>5, <4>3
    <3>2. QED
      BY <3>1
  <2>8. QED
    BY <1>3, <2>4, <2>5, <2>6, <2>7
<1>7. QED
  BY <1>5, <1>6

(* The frame that the buffer begins with. *)
LEMMA AnnouncedIs ==
  ASSUME body \in Bodies, Len(binary) >= 1, NEW k \in Nat \ {0},
         k <= Len(body.frames) => binary[1] = StartOf(body, k),
         k > Len(body.frames) => binary[1] >= Whole(body),
         binary[1] \in Nat
  PROVE  Announced = FrameAt(k)
<1> DEFINE n == Len(body.frames)
           at == {i \in 1..n : StartOf(body, i) = binary[1]}
<1>1. n \in Nat
  BY BodyFacts
<1>2. Announced = IF at = {} THEN NoFrame ELSE body.frames[CHOOSE i \in at : TRUE]
  BY DEF Announced, NoFrame
<1>3. CASE k <= n
  <2>1. k \in 1..n /\ binary[1] = StartOf(body, k)
    BY <1>1, <1>3
  <2>2. \A i \in 1..n : StartOf(body, i) = StartOf(body, k) => i = k
    <3>1. \A i \in 1..n : i \in 1..(n + 1)
      BY <1>1
    <3>2. QED
      BY <2>1, <3>1, StartUnique
  <2>3. at = {k}
    BY <2>1, <2>2
  <2>4. (CHOOSE i \in {k} : TRUE) = k
    OBVIOUS
  <2>5. at # {} /\ (CHOOSE i \in at : TRUE) = k
    BY <2>3, <2>4
  <2> HIDE DEF at
  <2>6. Announced = body.frames[k]
    BY <1>2, <2>5
  <2>7. QED
    BY <1>3, <2>6 DEF FrameAt
<1>4. CASE ~(k <= n)
  <2>1. binary[1] >= Whole(body)
    BY <1>1, <1>4
  <2>2. ASSUME NEW i \in 1..n
        PROVE  StartOf(body, i) # binary[1]
    <3>1. n + 1 \in (i + 1)..(n + 1)
      BY <1>1
    <3>2. StartOf(body, i) + body.frames[i].size <= StartOf(body, n + 1)
      BY <3>1, StartOrdered
    <3> DEFINE a == StartOf(body, i)
               s == body.frames[i].size
               w == StartOf(body, n + 1)
    <3>3. a \in Nat /\ s \in Nat /\ s > 0 /\ w \in Nat /\ Whole(body) = w
      <4>1. i \in 1..(n + 1) /\ n + 1 \in 1..(n + 1)
        BY <1>1
      <4>2. a \in Nat /\ w \in Nat /\ Whole(body) = w
        BY <4>1, StartFacts
      <4>3. s \in Nat /\ s >= HeaderSize /\ HeaderSize \in Nat \ {0}
        BY BodyFacts
      <4> HIDE DEF s
      <4>4. s > 0
        BY <4>3
      <4>5. QED
        BY <4>2, <4>3, <4>4
    <3>4. a + s <= w /\ w <= binary[1]
      BY <2>1, <3>2, <3>3
    <3> HIDE DEF a, s, w
    <3>5. a # binary[1]
      BY <3>3, <3>4
    <3>6. QED
      BY <3>5 DEF a
  <2>3. at = {}
    BY <2>2
  <2>4. QED
    BY <1>2, <1>4, <2>3 DEF FrameAt
<1>5. QED
  BY <1>3, <1>4

-----------------------------------------------------------------------------

(* What the invariant says of the numbers. *)
LEMMA StateFacts ==
  ASSUME TypeInv, TextInv, BinaryInv
  PROVE  /\ body \in Bodies /\ Length(body) \in Nat
         /\ received \in Nat /\ received <= Length(body)
         /\ Len(encoded) \in Nat /\ Len(binary) \in Nat /\ Len(frames) \in Nat
         /\ QuartetCount(body) \in Nat
         /\ body.text =>
              /\ Taken \in 0..QuartetCount(body)
              /\ received = 4 * Taken + Len(encoded)
              /\ Length(body) = 4 * QuartetCount(body)
         /\ ~body.text => Length(body) = body.eof
         /\ Reached \in Nat /\ Reached <= body.eof
         /\ Consumed \in Nat /\ Reached = Consumed + Len(binary)
         /\ binary # << >> => Len(binary) >= 1 /\ binary[1] = Consumed
<1>1. /\ body \in Bodies /\ received \in 0..Length(body)
      /\ Len(encoded) \in Nat /\ Len(binary) \in Nat /\ Len(frames) \in Nat
  BY DEF TypeInv
<1>2. /\ body.eof \in Nat /\ body.text \in BOOLEAN
      /\ body.text => SumTo(body.blocks, Len(body.blocks)) = body.eof
  BY <1>1, BodyFacts
<1>3. QuartetCount(body) \in Nat
  <2>1. Len(body.blocks) \in 0..Len(body.blocks)
    BY <1>1, BodyFacts
  <2>2. QED
    BY <1>1, <2>1, BlockFacts DEF QuartetCount
<1>4. Length(body) = IF body.text THEN 4 * QuartetCount(body) ELSE body.eof
  BY DEF Length
<1>5. /\ Length(body) \in Nat
      /\ body.text => Length(body) = 4 * QuartetCount(body)
      /\ ~body.text => Length(body) = body.eof
  <2>1. CASE body.text
    BY <1>3, <1>4, <2>1
  <2>2. CASE ~body.text
    BY <1>2, <1>4, <2>2
  <2>3. QED
    BY <1>2, <2>1, <2>2
<1>6. received \in Nat /\ received <= Length(body)
  BY <1>1, <1>5
<1>7. ASSUME body.text
      PROVE  Taken \in 0..QuartetCount(body) /\ received = 4 * Taken + Len(encoded)
  <2>1. /\ Len(encoded) <= received /\ received - Len(encoded) = 4 * Taken
        /\ received <= 4 * QuartetCount(body)
    BY <1>5, <1>6, <1>7 DEF TextInv
  <2>2. Taken \in Nat
    BY <1>1, <1>6, <2>1 DEF Taken
  <2>3. QED
    BY <1>1, <1>3, <1>6, <2>1, <2>2
<1>8. Reached \in Nat /\ Reached <= body.eof
  <2>1. CASE body.text
    <3>1. Reached = Reach(body, Taken)
      BY <2>1 DEF Reached
    <3>2. Taken = 0 \/ Taken \in 1..QuartetCount(body)
      BY <1>3, <1>7, <2>1
    <3>3. CASE Taken = 0
      BY <1>2, <3>1, <3>3 DEF Reach
    <3>4. CASE Taken \in 1..QuartetCount(body)
      BY <1>1, <1>2, <2>1, <3>1, <3>4, OctetsFollow
    <3>5. QED
      BY <3>2, <3>3, <3>4
  <2>2. CASE ~body.text
    BY <1>5, <1>6, <2>2 DEF Reached
  <2>3. QED
    BY <1>2, <2>1, <2>2
<1>9. Consumed \in Nat /\ Reached = Consumed + Len(binary)
  <2>1. Len(binary) <= Reached
    BY DEF BinaryInv
  <2>2. QED
    BY <1>1, <1>8, <2>1 DEF Consumed
<1>10. ASSUME binary # << >>
       PROVE  Len(binary) >= 1 /\ binary[1] = Consumed
  <2>1. binary \in Seq(Nat) /\ Len(binary) >= 1
    BY <1>10 DEF TypeInv
  <2>2. 1 \in 1..Len(binary)
    BY <1>1, <2>1
  <2>3. binary[1] = Consumed + 1 - 1
    BY <2>2 DEF BinaryInv, Run
  <2>4. QED
    BY <1>9, <2>1, <2>3
<1>11. QED
  BY <1>1, <1>3, <1>5, <1>6, <1>7, <1>8, <1>9, <1>10

(* Steps that leave what has been read alone. *)
LEMMA StreamUnchanged ==
  ASSUME TextInv, BinaryInv, UNCHANGED <<body, received, encoded, binary>>
  PROVE  /\ TextInv' /\ BinaryInv'
         /\ Consumed' = Consumed /\ Reached' = Reached
         /\ HasHeader' = HasHeader /\ HasFrame' = HasFrame
         /\ Announced' = Announced
<1>1. Taken' = Taken
  BY DEF Taken
<1>2. Reached' = Reached
  BY <1>1 DEF Reached
<1>3. Consumed' = Consumed
  BY <1>2 DEF Consumed
<1>4. Announced' = Announced
  BY DEF Announced
<1>5. HasHeader' = HasHeader
  BY DEF HasHeader
<1>6. HasFrame' = HasFrame
  BY <1>4, <1>5 DEF HasFrame
<1>7. TextInv'
  BY <1>1 DEF TextInv
<1>8. BinaryInv'
  BY <1>2, <1>3 DEF BinaryInv
<1>9. QED
  BY <1>2, <1>3, <1>4, <1>5, <1>6, <1>7, <1>8

(* The decoder may take more octets: only what has been taken as frames
   says which frames come next. *)
LEMMA InStepKept ==
  ASSUME InStep, Consumed' = Consumed, UNCHANGED <<body, frames, result>>
  PROVE  InStep'
<1>1. PICK m \in 0..Len(body.frames) : SumsUp(m) /\ Pending(m)
  BY DEF InStep
<1>2. SumsUp(m)'
  BY <1>1 DEF SumsUp
<1>3. \A k : FrameAt(k)' = FrameAt(k)
  BY DEF FrameAt
<1>4. Pending(m)'
  BY <1>1, <1>3 DEF Pending
<1>5. QED
  BY <1>1, <1>2, <1>4 DEF InStep

(* A stream without a verdict gives none of the promises a chance. *)
LEMMA NoVerdict ==
  ASSUME pc' # "done", result.Error' = "none", ~result.Cancelled'
  PROVE  VerdictInv'
  BY DEF VerdictInv, PassedMeansWhole, CancelledOnOrder, FailsForCause, Passed

(* A failure only owes its cause. *)
LEMMA FailedVerdict ==
  ASSUME result.Error' # "none", ~result.Cancelled',
         result.Error' \notin {"request", "response", "read"} => ~Flawless(body)'
  PROVE  VerdictInv'
  BY DEF VerdictInv, PassedMeansWhole, CancelledOnOrder, FailsForCause, Passed

LEMMA FailStep ==
  ASSUME IInv, pc # "done", NEW why \in Causes \ {"none"}, Fail(why),
         UNCHANGED <<config, received, readErr, encoded, binary>>,
         frames' \in Seq(Frames),
         why \notin {"request", "response", "read"} => ~Flawless(body)
  PROVE  IInv'
<1>1. /\ result' = [result EXCEPT !.Error = why] /\ pc' = "done"
      /\ body' = body /\ cancel_after' = cancel_after /\ received' = received
      /\ readErr' = readErr /\ encoded' = encoded /\ binary' = binary
  BY DEF Fail, config
<1>2. TypeInv /\ TextInv /\ BinaryInv /\ RunningInv
  BY DEF IInv
<1>3. /\ result' \in [Error : Causes, Cancelled : BOOLEAN, DataFrames : Nat,
                      seenTrailer : BOOLEAN, status_ok : BOOLEAN]
      /\ result'.Error = why /\ result'.Cancelled = result.Cancelled
  BY <1>1, <1>2 DEF TypeInv
<1>4. TypeInv'
  <2>1. Length(body)' = Length(body)
    BY <1>1
  <2>2. QED
    BY <1>1, <1>2, <1>3, <2>1 DEF TypeInv
<1>5. TextInv' /\ BinaryInv'
  BY <1>1, <1>2, StreamUnchanged
<1>6. VerdictInv'
  <2>1. ~result.Cancelled
    BY <1>2 DEF RunningInv
  <2>2. Flawless(body)' = Flawless(body)
    BY <1>1
  <2>3. QED
    BY <1>3, <2>1, <2>2, FailedVerdict
<1>7. RunningInv' /\ PhaseInv'
  BY <1>1 DEF RunningInv, PhaseInv
<1>8. QED
  BY <1>4, <1>5, <1>6, <1>7 DEF IInv

LEMMA MoveStep ==
  ASSUME IInv, pc # "done",
         pc' \in {"start", "read", "decode", "consume", "judge"},
         UNCHANGED <<config, received, readErr, encoded, binary, frames, result>>,
         PhaseInv'
  PROVE  IInv'
<1>1. /\ body' = body /\ cancel_after' = cancel_after /\ received' = received
      /\ readErr' = readErr /\ encoded' = encoded /\ binary' = binary
      /\ frames' = frames /\ result' = result
  BY DEF config
<1>2. TypeInv /\ TextInv /\ BinaryInv /\ RunningInv
  BY DEF IInv
<1>3. TypeInv'
  BY <1>1, <1>2 DEF TypeInv
<1>4. TextInv' /\ BinaryInv' /\ Consumed' = Consumed
  BY <1>1, <1>2, StreamUnchanged
<1>5. InStep /\ result.Error = "none" /\ ~result.Cancelled
  BY <1>2 DEF RunningInv
<1>6. InStep'
  BY <1>1, <1>4, <1>5, InStepKept
<1>7. RunningInv'
  BY <1>1, <1>2, <1>6 DEF RunningInv
<1>8. VerdictInv'
  <2>1. result.Error' = "none" /\ ~result.Cancelled' /\ pc' # "done"
    BY <1>1, <1>5
  <2>2. QED
    BY <2>1, NoVerdict
<1>9. QED
  BY <1>3, <1>4, <1>7, <1>8 DEF IInv

LEMMA InitStep == Init => IInv
<1> SUFFICES ASSUME Init
             PROVE  IInv
  OBVIOUS
<1>1. /\ body \in Bodies /\ cancel_after \in CancelAfters
      /\ pc = "start" /\ received = 0 /\ readErr = "none"
      /\ encoded = << >> /\ binary = << >> /\ frames = << >>
      /\ result = [Error |-> "none", Cancelled |-> FALSE, DataFrames |-> 0,
                   seenTrailer |-> FALSE, status_ok |-> FALSE]
  BY DEF Init
<1>2. HeaderSize \in Nat \ {0} /\ body.text \in BOOLEAN /\ Len(body.frames) \in Nat
  BY <1>1, BodyFacts
<1>3. TypeInv
  <2>1. Length(body) \in Nat
    <3>1. Len(body.blocks) \in 0..Len(body.blocks) /\ body.eof \in Nat
      BY <1>1, BodyFacts
    <3>2. QuartetCount(body) \in Nat
      BY <1>1, <3>1, BlockFacts DEF QuartetCount
    <3>3. QED
      BY <3>1, <3>2 DEF Length
  <2>2. received \in 0..Length(body)
    BY <1>1, <2>1
  <2>3. QED
    BY <1>1, <2>2 DEF TypeInv, Causes
<1>4. Len(encoded) = 0 /\ Len(binary) = 0 /\ Len(frames) = 0
  BY <1>1
<1>5. Taken = 0
  BY <1>1, <1>4 DEF Taken
<1>6. Reached = 0 /\ Consumed = 0
  <2>1. Reach(body, Taken) = 0
    BY <1>5 DEF Reach
  <2>2. Reached = 0
    BY <1>1, <2>1 DEF Reached
  <2>3. QED
    BY <1>4, <2>2 DEF Consumed
<1>7. Run(encoded, 4 * Taken) /\ Run(binary, Consumed)
  BY <1>1 DEF Run
<1>8. TextInv /\ BinaryInv
  <2>1. Len(encoded) <= received /\ received - Len(encoded) = 4 * Taken
    <3>1. received = 0 /\ Len(encoded) = 0 /\ Taken = 0
      BY <1>1, <1>4, <1>5
    <3>2. 0 <= 0 /\ 0 - 0 = 4 * 0
      OBVIOUS
    <3>3. QED
      BY ONLY <3>1, <3>2, Zenon
  <2>2. Len(binary) <= Reached
    BY <1>4, <1>6
  <2>3. QED
    BY <1>1, <1>7, <2>1, <2>2 DEF TextInv, BinaryInv
<1>9. InStep
  <2>1. SumsUp(0)
    <3>1. DataCount(body, 0) = 0
      BY DataCountFacts
    <3>2. QED
      BY <1>1, <3>1 DEF SumsUp
  <2>2. Pending(0)
    <3>1. StartOf(body, 1) = 0
      BY <1>1, StartFacts
    <3>2. 0 + Len(frames) = 0 /\ 0 + Len(frames) + 1 = 1 /\ ~(0 > Len(body.frames))
      BY <1>2, <1>4
    <3>3. QED
      BY <1>4, <1>6, <3>1, <3>2 DEF Pending
  <2>3. QED
    BY <1>2, <2>1, <2>2 DEF InStep
<1>10. RunningInv
  <2>1. cancel_after > 0 => result.DataFrames < cancel_after
    BY <1>1
  <2>2. QED
    BY <1>1, <1>9, <2>1 DEF RunningInv
<1>11. PhaseInv
  <2>1. ~HasHeader
    BY <1>2, <1>4 DEF HasHeader
  <2>2. QED
    BY <1>1, <1>4, <2>1 DEF PhaseInv, HasFrame
<1>12. VerdictInv
  BY <1>1 DEF VerdictInv, PassedMeansWhole, CancelledOnOrder, FailsForCause, Passed
<1>13. QED
  BY <1>3, <1>8, <1>10, <1>11, <1>12 DEF IInv

LEMMA NoResponseStep ==
  ASSUME IInv, NEW why \in {"request", "response"}, NoResponse(why)
  PROVE  IInv'
<1>1. /\ pc # "done" /\ Fail(why) /\ why \in Causes \ {"none"}
      /\ UNCHANGED <<config, received, readErr, encoded, binary>>
      /\ frames' = frames
  BY DEF NoResponse, Causes
<1>2. frames' \in Seq(Frames)
  BY <1>1 DEF IInv, TypeInv
<1>3. QED
  BY <1>1, <1>2, FailStep

LEMMA ResponseStep ==
  ASSUME IInv, Response
  PROVE  IInv'
<1>1. /\ pc = "start" /\ pc' = "read"
      /\ UNCHANGED <<config, received, readErr, encoded, binary, frames, result>>
  BY DEF Response
<1>2. HasFrame' = HasFrame
  BY <1>1, StreamUnchanged DEF IInv, config
<1>3. PhaseInv'
  BY <1>1, <1>2 DEF IInv, PhaseInv
<1>4. QED
  BY <1>1, <1>3, MoveStep

LEMMA DecodeEndsStep ==
  ASSUME IInv, DecodeEnds
  PROVE  IInv'
<1>1. /\ pc = "decode" /\ pc' = "consume" /\ Len(encoded) < 4
      /\ UNCHANGED <<config, received, readErr, encoded, binary, frames, result>>
  BY DEF DecodeEnds
<1>2. PhaseInv'
  BY <1>1 DEF PhaseInv
<1>3. QED
  BY <1>1, <1>2, MoveStep

LEMMA ConsumeEndsStep ==
  ASSUME IInv, ConsumeEnds
  PROVE  IInv'
<1>1. /\ pc = "consume" /\ pc' = "judge" /\ ~HasFrame
      /\ UNCHANGED <<config, received, readErr, encoded, binary, frames, result>>
  BY DEF ConsumeEnds
<1>2. HasFrame' = HasFrame
  BY <1>1, StreamUnchanged DEF IInv, config
<1>3. PhaseInv'
  BY <1>1, <1>2 DEF IInv, PhaseInv
<1>4. QED
  BY <1>1, <1>3, MoveStep

LEMMA ReadOnStep ==
  ASSUME IInv, ReadOn
  PROVE  IInv'
<1>1. /\ pc = "judge" /\ frames = << >>
      /\ UNCHANGED <<config, received, readErr, encoded, binary, frames>>
  BY DEF ReadOn
<1>2. CASE readErr = "failed"
  <2>1. Fail("read") /\ "read" \in Causes \ {"none"}
    BY <1>2 DEF ReadOn, Causes
  <2>2. frames' \in Seq(Frames)
    BY <1>1 DEF IInv, TypeInv
  <2>3. QED
    BY <1>1, <2>1, <2>2, FailStep
<1>3. CASE readErr # "failed"
  <2>1. pc' = "read" /\ result' = result
    BY <1>3 DEF ReadOn
  <2>2. HasFrame' = HasFrame
    BY <1>1, StreamUnchanged DEF IInv, config
  <2>3. PhaseInv'
    BY <1>1, <2>1, <2>2 DEF IInv, PhaseInv
  <2>4. QED
    BY <1>1, <2>1, <2>3, MoveStep
<1>4. QED
  BY <1>2, <1>3

LEMMA ReadStep ==
  ASSUME IInv, NEW n \in 0..(Length(body) - received),
         NEW err \in {"none", "eof", "failed"}, Read(n, err)
  PROVE  IInv'
<1> DEFINE chunk == [i \in 1..n |-> received + i - 1]
<1>1. /\ pc = "read" /\ received' = received + n /\ readErr' = err
      /\ err = "eof" => received + n = Length(body)
      /\ body' = body /\ cancel_after' = cancel_after
      /\ frames' = frames /\ result' = result
      /\ pc' = IF n = 0 THEN "judge" ELSE IF body.text THEN "decode" ELSE "consume"
  BY DEF Read, config
<1>2. /\ body.text => encoded' = encoded \o chunk /\ binary' = binary
      /\ ~body.text => binary' = binary \o chunk /\ encoded' = encoded
  BY DEF Read
<1>3. /\ TypeInv /\ TextInv /\ BinaryInv /\ InStep /\ PhaseInv
      /\ result.Error = "none" /\ ~result.Cancelled
      /\ cancel_after > 0 => result.DataFrames < cancel_after
  BY <1>1 DEF IInv, RunningInv
<1>4. /\ Length(body) \in Nat /\ received \in Nat /\ received <= Length(body)
      /\ Len(encoded) \in Nat /\ Len(binary) \in Nat
      /\ body.text => Taken \in Nat /\ received = 4 * Taken + Len(encoded)
      /\ Consumed \in Nat /\ Reached = Consumed + Len(binary)
      /\ body \in Bodies
  BY <1>3, StateFacts
<1>5. n \in Nat /\ received + n \in 0..Length(body) /\ Length(body)' = Length(body)
  BY <1>1, <1>4
<1>6. chunk \in Seq(Nat) /\ Len(chunk) = n /\ Run(chunk, received)
  <2>1. \A i \in 1..n : received + i - 1 \in Nat
    BY <1>4, <1>5
  <2>2. chunk \in Seq(Nat) /\ Len(chunk) = n
    BY <1>5, <2>1
  <2>3. \A i \in 1..Len(chunk) : chunk[i] = received + i - 1
    BY <2>2
  <2>4. QED
    BY <2>2, <2>3 DEF Run
<1> HIDE DEF chunk
<1>7. /\ TextInv' /\ BinaryInv' /\ Consumed' = Consumed
      /\ encoded' \in Seq(Nat) /\ binary' \in Seq(Nat)
  <2>1. CASE body.text
    <3>1. encoded' = encoded \o chunk /\ binary' = binary
      BY <1>2, <2>1
    <3>2. /\ Run(encoded, 4 * Taken) /\ received = 4 * Taken + Len(encoded)
          /\ 4 * Taken \in Nat
      BY <1>3, <1>4, <2>1 DEF TextInv
    <3>3. Run(encoded', 4 * Taken) /\ Len(encoded') = Len(encoded) + n
      <4>1. Run(chunk, 4 * Taken + Len(encoded))
        BY <1>6, <3>2
      <4>2. /\ Run(encoded \o chunk, 4 * Taken)
            /\ Len(encoded \o chunk) = Len(encoded) + Len(chunk)
        BY <3>2, <4>1, RunConcat
      <4>3. QED
        BY <1>6, <3>1, <4>2
    <3>4. received' - Len(encoded') = received - Len(encoded)
      BY <1>1, <1>4, <1>5, <3>3
    <3>5. Taken' = Taken
      BY <3>4 DEF Taken
    <3>6. Reached' = Reached
      BY <1>1, <2>1, <3>5 DEF Reached
    <3>7. Consumed' = Consumed
      BY <3>1, <3>6 DEF Consumed
    <3>8. Len(encoded') <= received' /\ received' - Len(encoded') = 4 * Taken
      <4>1. Taken \in Nat
        BY <1>4, <2>1
      <4>2. QED
        BY <1>1, <1>4, <1>5, <3>2, <3>3, <4>1
    <3>9. TextInv'
      BY <1>1, <2>1, <3>3, <3>5, <3>8 DEF TextInv
    <3>10. BinaryInv'
      BY <1>3, <3>1, <3>6, <3>7 DEF BinaryInv
    <3>11. encoded' \in Seq(Nat) /\ binary' \in Seq(Nat)
      BY <1>3, <3>1, <3>3 DEF Run, TypeInv
    <3>12. QED
      BY <3>7, <3>9, <3>10, <3>11
  <2>2. CASE ~body.text
    <3>1. binary' = binary \o chunk /\ encoded' = encoded
      BY <1>2, <2>2
    <3>2. Reached = received /\ Reached' = received + n
      BY <1>1, <2>2 DEF Reached
    <3>3. Run(binary, Consumed) /\ received = Consumed + Len(binary)
      BY <1>3, <1>4, <3>2 DEF BinaryInv
    <3>4. Run(binary', Consumed) /\ Len(binary') = Len(binary) + n
      <4>1. Run(chunk, Consumed + Len(binary))
        BY <1>6, <3>3
      <4>2. /\ Run(binary \o chunk, Consumed)
            /\ Len(binary \o chunk) = Len(binary) + Len(chunk)
        BY <1>4, <3>3, <4>1, RunConcat
      <4>3. QED
        BY <1>6, <3>1, <4>2
    <3>5. Reached' - Len(binary') = Consumed /\ Len(binary') <= Reached'
      BY <1>4, <1>5, <3>2, <3>3, <3>4
    <3>6. Consumed' = Consumed
      BY <3>5 DEF Consumed
    <3>7. BinaryInv'
      BY <3>4, <3>5, <3>6 DEF BinaryInv
    <3>8. TextInv'
      BY <1>1, <1>3, <2>2, <3>1 DEF TextInv
    <3>9. encoded' \in Seq(Nat) /\ binary' \in Seq(Nat)
      BY <1>3, <3>1, <3>4 DEF Run, TypeInv
    <3>10. QED
      BY <3>6, <3>7, <3>8, <3>9
  <2>3. QED
    BY <2>1, <2>2
<1>8. InStep'
  BY <1>1, <1>3, <1>7, InStepKept
<1>9. TypeInv'
  <2>1. pc' \in {"start", "read", "decode", "consume", "judge", "done"}
    BY <1>1
  <2>2. QED
    BY <1>1, <1>3, <1>5, <1>7, <2>1 DEF TypeInv
<1>10. pc' # "done"
  BY <1>1
<1>11. RunningInv'
  BY <1>1, <1>3, <1>5, <1>8 DEF RunningInv
<1>12. VerdictInv'
  <2>1. result'.Error = "none" /\ ~result'.Cancelled
    BY <1>1, <1>3
  <2>2. QED
    BY <1>10, <2>1, NoVerdict
<1>13. PhaseInv'
  <2>1. frames' = << >> /\ Len(encoded) < 4 /\ ~HasFrame
    BY <1>1, <1>3 DEF PhaseInv
  <2>2. CASE n = 0
    <3>1. chunk = << >>
      BY <1>6, <2>2
    <3>2. encoded' = encoded /\ binary' = binary /\ received' = received
      <4>1. encoded \o << >> = encoded /\ binary \o << >> = binary
        BY <1>3, ConcatEmptySeq DEF TypeInv
      <4>2. received + 0 = received
        BY <1>4
      <4>3. QED
        BY <1>1, <1>2, <2>2, <3>1, <4>1, <4>2
    <3>3. HasFrame' = HasFrame
      BY <1>1, <1>3, <3>2, StreamUnchanged
    <3>4. pc' = "judge"
      BY <1>1, <2>2
    <3>5. QED
      BY <2>1, <3>2, <3>3, <3>4 DEF PhaseInv
  <2>3. CASE n # 0 /\ body.text
    <3>1. pc' = "decode" /\ body'.text
      BY <1>1, <2>3
    <3>2. QED
      BY <2>1, <3>1 DEF PhaseInv
  <2>4. CASE n # 0 /\ ~body.text
    <3>1. pc' = "consume" /\ encoded' = encoded
      BY <1>1, <1>2, <2>4
    <3>2. QED
      BY <2>1, <3>1 DEF PhaseInv
  <2>5. QED
    BY <2>2, <2>3, <2>4
<1>14. QED
  BY <1>7, <1>9, <1>11, <1>12, <1>13 DEF IInv

LEMMA DecodeBlockStep ==
  ASSUME IInv, DecodeBlock
  PROVE  /\ IInv' /\ Consumed' = Consumed
         /\ Decodable(BlockEnd) => Len(encoded') = Len(encoded) - BlockEnd
<1>1. /\ pc = "decode" /\ Len(encoded) >= 4
      /\ body' = body /\ cancel_after' = cancel_after /\ received' = received
      /\ readErr' = readErr /\ frames' = frames
  BY DEF DecodeBlock, config
<1>2. /\ TypeInv /\ TextInv /\ BinaryInv /\ InStep /\ PhaseInv
      /\ result.Error = "none" /\ ~result.Cancelled
      /\ cancel_after > 0 => result.DataFrames < cancel_after
      /\ readErr = "eof" => received = Length(body)
  BY <1>1 DEF IInv, RunningInv
<1>3. body.text /\ frames = << >>
  BY <1>1, <1>2 DEF PhaseInv
<1>4. encoded \in Seq(Nat) /\ Len(encoded) \in Nat
  BY <1>2 DEF TypeInv
<1>5. /\ \E t \in Nat : BlockEnd = 4 * t
      /\ BlockEnd <= Complete /\ Complete <= Len(encoded)
      /\ Len(encoded) - Complete < 4 /\ Complete \in Nat
      /\ \A e \in 1..BlockEnd :
           e % 4 = 0 /\ Padded(body, Quartet(encoded[e])) => e = BlockEnd
  BY <1>1, <1>4, BlockEndIs
<1>6. CASE ~Decodable(BlockEnd)
  <2>1. Fail("decode") /\ UNCHANGED <<binary, encoded>>
    BY <1>6 DEF DecodeBlock
  <2>2. ~Flawless(body)
    <3>1. PICK e \in 1..BlockEnd :
            /\ e % 4 = 0
            /\ \/ Quartet(encoded[e]) = body.junk
               \/ Padded(body, Quartet(encoded[e])) /\ e # BlockEnd
      BY <1>6 DEF Decodable
    <3>2. Quartet(encoded[e]) = body.junk
      BY <1>5, <3>1
    <3>3. Quartet(encoded[e]) # 0
      <4>1. BlockEnd \in Nat
        BY <1>5
      <4>2. e \in 1..Len(encoded)
        BY <1>4, <1>5, <4>1
      <4>3. encoded[e] \in Nat
        BY <1>4, <4>2
      <4>4. QED
        BY <4>3 DEF Quartet
    <3>4. QED
      BY <3>2, <3>3 DEF Flawless
  <2>3. /\ frames' \in Seq(Frames) /\ "decode" \in Causes \ {"none"} /\ pc # "done"
        /\ UNCHANGED <<config, received, readErr, encoded, binary>>
    BY <1>1, <1>2, <2>1 DEF TypeInv, Causes, config
  <2>4. Consumed' = Consumed
    BY <1>1, <1>2, <2>1, StreamUnchanged
  <2>5. QED
    BY <1>6, <2>1, <2>2, <2>3, <2>4, FailStep
<1>7. CASE Decodable(BlockEnd)
  <2>1. /\ binary' = binary \o DecodedTo(BlockEnd)
        /\ encoded' = SubSeq(encoded, BlockEnd + 1, Len(encoded))
        /\ pc' = IF MoreBlocks(BlockEnd) THEN "decode" ELSE "consume"
        /\ result' = result
    BY <1>7 DEF DecodeBlock
  <2>2. PICK t \in Nat : BlockEnd = 4 * t
    BY <1>5
  <2>3. /\ Taken \in 0..QuartetCount(body) /\ received = 4 * Taken + Len(encoded)
        /\ Length(body) = 4 * QuartetCount(body) /\ QuartetCount(body) \in Nat
        /\ received <= Length(body) /\ received \in Nat
        /\ Consumed \in Nat /\ Reached = Consumed + Len(binary)
        /\ Len(binary) \in Nat /\ body \in Bodies
    BY <1>2, <1>3, StateFacts
  <2>4. Run(encoded, 4 * Taken)
    BY <1>2, <1>3 DEF TextInv
  <2>5. 4 * t <= Len(encoded) /\ Taken + t <= QuartetCount(body) /\ Taken \in Nat
    BY <1>4, <1>5, <2>2, <2>3
  <2> DEFINE d == DecodedTo(4 * t)
  <2>6. Run(d, Reached) /\ Reached + Len(d) = Reach(body, Taken + t)
    <3>1. Reached = Reach(body, Taken)
      BY <1>3 DEF Reached
    <3>2. QED
      BY <2>3, <2>4, <2>5, <3>1, DecodedRun
  <2>7. binary' = binary \o d
    BY <2>1, <2>2
  <2>8. Len(d) \in Nat
    BY <2>6 DEF Run
  <2> HIDE DEF d
  <2>9. Run(binary', Consumed) /\ Len(binary') = Len(binary) + Len(d)
    <3>1. Run(binary, Consumed) /\ Run(d, Consumed + Len(binary))
      BY <1>2, <2>3, <2>6 DEF BinaryInv
    <3>2. /\ Run(binary \o d, Consumed)
          /\ Len(binary \o d) = Len(binary) + Len(d)
      BY <2>3, <3>1, RunConcat
    <3>3. QED
      BY <2>7, <3>2
  <2>10. Run(encoded', 4 * Taken + 4 * t) /\ Len(encoded') = Len(encoded) - 4 * t
    <3>1. 4 * t \in 0..Len(encoded) /\ 4 * Taken \in Nat
      BY <1>4, <2>5
    <3>2. encoded' = SubSeq(encoded, 4 * t + 1, Len(encoded))
      BY <2>1, <2>2
    <3>3. QED
      BY <2>4, <3>1, <3>2, RunDrop
  <2>11. Taken' = Taken + t /\ received' - Len(encoded') = 4 * (Taken + t)
    <3>1. received' - Len(encoded') = 4 * (Taken + t)
      BY <1>1, <1>4, <2>3, <2>5, <2>10
    <3> DEFINE now == Taken + t
    <3>2. now \in Nat /\ received' - Len(encoded') = 4 * now
      BY <2>5, <3>1
    <3>3. Taken' = (received' - Len(encoded')) \div 4
      BY DEF Taken
    <3> HIDE DEF now
    <3>4. (4 * now) \div 4 = now
      BY <3>2
    <3>5. Taken' = now
      BY <3>2, <3>3, <3>4
    <3>6. QED
      BY <3>1, <3>5 DEF now
  <2>12. TextInv'
    <3>1. Len(encoded') <= received'
      <4>1. Len(encoded) - 4 * t \in Nat
        BY <1>4, <2>5
      <4>2. QED
        BY <1>1, <1>4, <2>3, <2>5, <2>10
    <3>2. 4 * Taken + 4 * t = 4 * (Taken + t)
      BY <2>5
    <3>3. Run(encoded', 4 * (Taken + t))
      BY <2>10, <3>2
    <3>4. Run(encoded', 4 * Taken') /\ received' - Len(encoded') = 4 * Taken'
      BY <2>11, <3>3
    <3>5. QED
      BY <1>1, <1>3, <3>1, <3>4 DEF TextInv
  <2>13. Reached' = Reached + Len(d)
    <3>1. Reached' = Reach(body, Taken + t)
      BY <1>1, <1>3, <2>11 DEF Reached
    <3>2. QED
      BY <2>6, <3>1
  <2>14. Reached' - Len(binary') = Consumed /\ Len(binary') <= Reached'
    BY <2>3, <2>8, <2>9, <2>13
  <2>15. Consumed' = Consumed
    BY <2>14 DEF Consumed
  <2>16. BinaryInv'
    BY <2>9, <2>14, <2>15 DEF BinaryInv
  <2>17. InStep'
    BY <1>1, <1>2, <2>1, <2>15, InStepKept
  <2>18. Length(body)' = Length(body)
    BY <1>1
  <2>19. pc' \in {"decode", "consume"}
    BY <2>1
  <2>20. TypeInv'
    <3>1. encoded' \in Seq(Nat) /\ binary' \in Seq(Nat)
      BY <2>9, <2>10 DEF Run
    <3>2. QED
      BY <1>1, <1>2, <2>1, <2>18, <2>19, <3>1 DEF TypeInv
  <2>21. RunningInv'
    BY <1>1, <1>2, <2>1, <2>17, <2>18 DEF RunningInv
  <2>22. VerdictInv'
    <3>1. result'.Error = "none" /\ ~result'.Cancelled /\ pc' # "done"
      BY <1>2, <2>1, <2>19
    <3>2. QED
      BY <3>1, NoVerdict
  <2>23. PhaseInv'
    <3>1. frames' = << >> /\ body'.text
      BY <1>1, <1>3
    <3>2. pc' = "consume" => Len(encoded') < 4
      <4>1. pc' = "consume" => BlockEnd = Complete
        BY <2>1 DEF MoreBlocks
      <4>2. QED
        BY <1>4, <1>5, <2>2, <2>10, <4>1
    <3>3. QED
      BY <2>19, <3>1, <3>2 DEF PhaseInv
  <2>24. IInv'
    BY <2>12, <2>16, <2>20, <2>21, <2>22, <2>23 DEF IInv
  <2>25. QED
    BY <2>2, <2>10, <2>15, <2>24
<1>8. QED
  BY <1>6, <1>7

(* The buffer begins with the frame after those that are pending. *)
LEMMA NextAnnounced ==
  ASSUME TypeInv, TextInv, BinaryInv, HasHeader,
         NEW m \in 0..Len(body.frames), Pending(m)
  PROVE  /\ Len(binary) >= 1 /\ Len(binary) >= HeaderSize
         /\ Announced = FrameAt(m + Len(frames) + 1)
         /\ Announced \in Frames
         /\ Announced.size \in Nat /\ Announced.size >= HeaderSize
<1>1. /\ body \in Bodies /\ Len(binary) \in Nat /\ Len(frames) \in Nat
      /\ Consumed \in Nat
      /\ binary # << >> => binary[1] = Consumed
      /\ HeaderSize \in Nat \ {0} /\ Len(body.frames) \in Nat
  BY StateFacts, BodyFacts
<1>2. Len(binary) >= 1 /\ Len(binary) >= HeaderSize
  BY <1>1 DEF HasHeader
<1>3. binary # << >> /\ binary[1] = Consumed
  BY <1>1, <1>2
<1> DEFINE p == m + Len(frames)
           k == m + Len(frames) + 1
           n == Len(body.frames)
<1>4. m \in Nat /\ p \in Nat /\ n \in Nat /\ k \in Nat \ {0} /\ k = p + 1
  BY <1>1
<1>5. /\ p <= n => Consumed = StartOf(body, k)
      /\ p > n => Consumed > Whole(body)
  BY DEF Pending
<1>6. Whole(body) = StartOf(body, n + 1) /\ Whole(body) \in Nat
  <2>1. n + 1 \in 1..(n + 1)
    BY <1>4
  <2>2. QED
    BY <1>1, <2>1, StartFacts
<1> HIDE DEF p, k, n
<1>7. /\ k <= n => binary[1] = StartOf(body, k)
      /\ k > n => binary[1] >= Whole(body)
  <2>1. CASE k <= n
    <3>1. p <= n
      BY <1>4, <2>1
    <3>2. QED
      BY <1>3, <1>4, <1>5, <2>1, <3>1
  <2>2. CASE p = n
    <3>1. k = n + 1 /\ Consumed = StartOf(body, k)
      BY <1>4, <1>5, <2>2
    <3>2. binary[1] = Whole(body)
      BY <1>3, <1>6, <3>1
    <3>3. QED
      BY <1>4, <1>6, <3>1, <3>2
  <2>3. CASE p > n
    <3>1. ~(k <= n)
      BY <1>4, <2>3
    <3>2. QED
      BY <1>1, <1>3, <1>5, <1>6, <2>3, <3>1
  <2>4. QED
    BY <1>4, <2>1, <2>2, <2>3
<1>8. Announced = FrameAt(k)
  <2>1. binary[1] \in Nat
    BY <1>1, <1>3
  <2>2. QED
    BY <1>1, <1>2, <1>4, <1>7, <2>1, AnnouncedIs DEF n
<1>9. FrameAt(k) \in Frames /\ FrameAt(k).size \in Nat /\ FrameAt(k).size >= HeaderSize
  <2>1. CASE k <= n
    <3>1. k \in 1..Len(body.frames)
      BY <1>4, <2>1 DEF n
    <3>2. FrameAt(k) = body.frames[k]
      BY <2>1 DEF FrameAt, n
    <3>3. QED
      BY <1>1, <3>1, <3>2, BodyFacts
  <2>2. CASE ~(k <= n)
    <3>1. FrameAt(k) = NoFrame
      BY <2>2 DEF FrameAt, n
    <3>2. NoFrame \in Frames /\ NoFrame.size = HeaderSize
      BY <1>1 DEF NoFrame, Frames
    <3>3. QED
      BY <1>1, <3>1, <3>2
  <2>3. QED
    BY <2>1, <2>2
<1>10. QED
  BY <1>2, <1>8, <1>9 DEF k

(* In a flawless response whatever the buffer holds belongs to a frame. *)
LEMMA FlawlessNext ==
  ASSUME TypeInv, TextInv, BinaryInv, Flawless(body),
         NEW m \in 0..Len(body.frames), Pending(m)
  PROVE  /\ m + Len(frames) <= Len(body.frames)
         /\ Len(binary) >= 1 => m + Len(frames) + 1 <= Len(body.frames)
<1>1. /\ body \in Bodies /\ Len(binary) \in Nat /\ Len(frames) \in Nat
      /\ Consumed \in Nat /\ Reached \in Nat
      /\ Reached <= body.eof /\ Reached = Consumed + Len(binary)
      /\ Len(body.frames) \in Nat /\ body.eof \in Nat
  BY StateFacts, BodyFacts
<1>2. body.eof = Whole(body)
  BY DEF Flawless, WellAnswered
<1> DEFINE p == m + Len(frames)
           n == Len(body.frames)
<1>3. m \in Nat /\ p \in Nat /\ n \in Nat
  BY <1>1
<1>4. /\ p <= n => Consumed = StartOf(body, p + 1)
      /\ p > n => Consumed > Whole(body)
  BY DEF Pending
<1>5. Whole(body) = StartOf(body, n + 1)
  BY <1>1, StartFacts
<1> HIDE DEF p, n
<1>6. p <= n
  <2>1. ASSUME p > n
        PROVE  FALSE
    <3>1. Consumed > body.eof
      BY <1>2, <1>4, <2>1
    <3>2. QED
      BY <1>1, <3>1
  <2>2. QED
    BY <1>3, <2>1
<1>7. ASSUME Len(binary) >= 1
      PROVE  p + 1 <= n
  <2>1. Consumed < body.eof
    BY <1>1, <1>7
  <2>2. p # n
    <3>1. ASSUME p = n
          PROVE  FALSE
      <4>1. Consumed = body.eof
        BY <1>2, <1>4, <1>5, <1>6, <3>1
      <4>2. QED
        BY <1>1, <2>1, <4>1
    <3>2. QED
      BY <3>1
  <2>3. QED
    BY <1>3, <1>6, <2>2
<1>8. QED
  BY <1>6, <1>7 DEF p, n

LEMMA RefuseFrameStep ==
  ASSUME IInv, RefuseFrame
  PROVE  IInv'
<1>1. /\ pc = "consume" /\ HasHeader /\ Announced.size - HeaderSize > MaxFrame
      /\ Fail("decode")
      /\ UNCHANGED <<config, received, readErr, encoded, binary, frames>>
  BY DEF RefuseFrame
<1>2. TypeInv /\ TextInv /\ BinaryInv /\ InStep
  BY <1>1 DEF IInv, RunningInv
<1>3. PICK m \in 0..Len(body.frames) : SumsUp(m) /\ Pending(m)
  BY <1>2 DEF InStep
<1>4. ASSUME Flawless(body)
      PROVE  FALSE
  <2> DEFINE k == m + Len(frames) + 1
  <2>1. /\ Len(binary) >= 1 /\ Announced = FrameAt(k)
        /\ Announced.size \in Nat
    BY <1>1, <1>2, <1>3, NextAnnounced
  <2>2. k <= Len(body.frames)
    BY <1>2, <1>3, <1>4, <2>1, FlawlessNext
  <2>3. k \in 1..Len(body.frames)
    <3>1. Len(frames) \in Nat /\ Len(body.frames) \in Nat
      BY <1>2, StateFacts, BodyFacts
    <3>2. QED
      BY <2>2, <3>1
  <2> HIDE DEF k
  <2>4. Announced = body.frames[k]
    BY <2>1, <2>2 DEF FrameAt
  <2>5. Announced.size - HeaderSize <= MaxFrame
    BY <1>4, <2>3, <2>4 DEF Flawless
  <2>6. HeaderSize \in Nat /\ MaxFrame \in Nat
    BY LoadAssumption
  <2>7. QED
    BY <1>1, <2>1, <2>5, <2>6
<1>5. frames' \in Seq(Frames) /\ "decode" \in Causes \ {"none"} /\ pc # "done"
  BY <1>1, <1>2 DEF TypeInv, Causes
<1>6. QED
  BY <1>1, <1>4, <1>5, FailStep

LEMMA TakeFrameStep ==
  ASSUME IInv, TakeFrame
  PROVE  /\ IInv'
         /\ Consumed' \in Nat /\ Consumed' > Consumed
         /\ Len(frames') = Len(frames) + 1
<1>1. /\ pc = "consume" /\ pc' = pc /\ HasFrame
      /\ frames' = Append(frames, Announced)
      /\ binary' = SubSeq(binary, Announced.size + 1, Len(binary))
      /\ body' = body /\ cancel_after' = cancel_after /\ received' = received
      /\ readErr' = readErr /\ encoded' = encoded /\ result' = result
  BY DEF TakeFrame, config
<1>2. /\ TypeInv /\ TextInv /\ BinaryInv /\ InStep /\ PhaseInv
      /\ result.Error = "none" /\ ~result.Cancelled
      /\ cancel_after > 0 => result.DataFrames < cancel_after
      /\ readErr = "eof" => received = Length(body)
  BY <1>1 DEF IInv, RunningInv
<1>3. PICK m \in 0..Len(body.frames) : SumsUp(m) /\ Pending(m)
  BY <1>2 DEF InStep
<1>4. HasHeader /\ Len(binary) >= Announced.size
  BY <1>1 DEF HasFrame
<1> DEFINE p == m + Len(frames)
           n == Len(body.frames)
           s == Announced.size
<1>5. /\ Announced = FrameAt(p + 1) /\ Announced \in Frames
      /\ s \in Nat /\ s >= HeaderSize
  BY <1>2, <1>3, <1>4, NextAnnounced
<1>6. /\ body \in Bodies /\ Len(binary) \in Nat /\ Len(frames) \in Nat
      /\ Consumed \in Nat /\ Reached = Consumed + Len(binary)
      /\ n \in Nat /\ m \in Nat /\ p \in Nat
      /\ HeaderSize \in Nat \ {0}
  BY <1>2, StateFacts, BodyFacts
<1>7. /\ frames' \in Seq(Frames) /\ Len(frames') = Len(frames) + 1
      /\ \A i \in 1..Len(frames) : frames'[i] = frames[i]
      /\ frames'[Len(frames) + 1] = Announced
  <2>1. frames \in Seq(Frames)
    BY <1>2 DEF TypeInv
  <2>2. QED
    BY <1>1, <1>5, <2>1, AppendProperties
<1>8. Run(binary', Consumed + s) /\ Len(binary') = Len(binary) - s
  <2>1. s \in 0..Len(binary) /\ Run(binary, Consumed)
    BY <1>2, <1>4, <1>5, <1>6 DEF BinaryInv
  <2> HIDE DEF s
  <2>2. QED
    BY <1>1, <1>6, <2>1, RunDrop DEF s
<1>9. Taken' = Taken
  BY <1>1 DEF Taken
<1>10. Reached' = Reached
  BY <1>1, <1>9 DEF Reached
<1> HIDE DEF s
<1>11. s <= Len(binary)
  BY <1>4 DEF s
<1>12. Reached - Len(binary') = Consumed + s /\ Len(binary') <= Reached
  BY <1>5, <1>6, <1>8, <1>11
<1>13. Consumed' = Consumed + s
  BY <1>10, <1>12 DEF Consumed
<1>14. BinaryInv' /\ TextInv'
  <2>1. BinaryInv'
    BY <1>8, <1>10, <1>12, <1>13 DEF BinaryInv
  <2>2. TextInv'
    BY <1>1, <1>2, <1>9 DEF TextInv
  <2>3. QED
    BY <2>1, <2>2
<1>15. /\ p <= n => Consumed = StartOf(body, p + 1)
       /\ p > n => Consumed > Whole(body)
  BY <1>3 DEF Pending
<1>16. \A k : FrameAt(k)' = FrameAt(k)
  BY <1>1 DEF FrameAt
<1>17. Pending(m)'
  <2>1. ASSUME NEW i \in 1..Len(frames')
        PROVE  frames'[i] = FrameAt(m + i)
    <3>1. CASE i <= Len(frames)
      <4>1. i \in 1..Len(frames)
        BY <1>6, <1>7, <3>1
      <4>2. QED
        BY <1>3, <1>7, <4>1 DEF Pending
    <3>2. CASE ~(i <= Len(frames))
      <4>1. i = Len(frames) + 1 /\ m + i = p + 1
        BY <1>6, <1>7, <3>2
      <4>2. QED
        BY <1>5, <1>7, <4>1
    <3>3. QED
      BY <3>1, <3>2
  <2>2. m + Len(frames') = p + 1 /\ m + Len(frames') + 1 = p + 2
    BY <1>6, <1>7
  <2> HIDE DEF p, n
  <2>3. ASSUME p + 1 <= n
        PROVE  Consumed' = StartOf(body, p + 2)
    <3>1. p + 1 \in 1..n /\ (p + 1) + 1 = p + 2 /\ p <= n
      BY <1>6, <2>3
    <3>2. StartOf(body, p + 2) = StartOf(body, p + 1) + body.frames[p + 1].size
      <4>1. StartOf(body, (p + 1) + 1) = StartOf(body, p + 1) + body.frames[p + 1].size
        BY <1>6, <3>1, StartFacts DEF n
      <4>2. QED
        BY <3>1, <4>1
    <3>3. s = body.frames[p + 1].size
      BY <1>5, <2>3 DEF FrameAt, n, s
    <3>4. QED
      BY <1>13, <1>15, <3>1, <3>2, <3>3
  <2>4. ASSUME p + 1 > n
        PROVE  Consumed' > Whole(body)
    <3>1. Whole(body) = StartOf(body, n + 1) /\ Whole(body) \in Nat
      <4>1. n + 1 \in 1..(n + 1)
        BY <1>6
      <4>2. QED
        BY <1>6, <4>1, StartFacts DEF n
    <3>2. Consumed >= Whole(body)
      <4>1. CASE p <= n
        <5>1. p = n
          BY <1>6, <2>4, <4>1
        <5>2. QED
          BY <1>6, <1>15, <3>1, <4>1, <5>1
      <4>2. CASE ~(p <= n)
        <5>1. Consumed > Whole(body)
          BY <1>6, <1>15, <4>2
        <5>2. QED
          BY <1>6, <3>1, <5>1
      <4>3. QED
        BY <4>1, <4>2
    <3>3. s > 0
      BY <1>5, <1>6
    <3>4. QED
      BY <1>5, <1>6, <1>13, <3>1, <3>2, <3>3
  <2>5. /\ m + Len(frames') <= Len(body.frames) => Consumed' = StartOf(body, m + Len(frames') + 1)
        /\ m + Len(frames') > Len(body.frames) => Consumed' > Whole(body)
    BY <2>2, <2>3, <2>4 DEF n
  <2>6. QED
    BY <1>1, <1>16, <2>1, <2>5 DEF Pending
<1>18. InStep'
  <2>1. SumsUp(m)'
    BY <1>1, <1>3 DEF SumsUp
  <2>2. QED
    BY <1>1, <1>17, <2>1 DEF InStep
<1>19. Length(body)' = Length(body)
  BY <1>1
<1>20. TypeInv'
  <2>1. binary' \in Seq(Nat)
    BY <1>8 DEF Run
  <2>2. QED
    BY <1>1, <1>2, <1>7, <1>19, <2>1 DEF TypeInv
<1>21. RunningInv'
  BY <1>1, <1>2, <1>18, <1>19 DEF RunningInv
<1>22. VerdictInv'
  <2>1. result'.Error = "none" /\ ~result'.Cancelled /\ pc' # "done"
    BY <1>1, <1>2
  <2>2. QED
    BY <2>1, NoVerdict
<1>23. PhaseInv'
  BY <1>1, <1>2 DEF PhaseInv
<1>24. IInv'
  BY <1>14, <1>20, <1>21, <1>22, <1>23 DEF IInv
<1>25. Consumed' \in Nat /\ Consumed' > Consumed
  BY <1>5, <1>6, <1>13
<1>26. QED
  BY <1>7, <1>24, <1>25

(* One more frame judged: the rest of this Push comes after it. *)
LEMMA JudgedOne ==
  ASSUME body \in Bodies, frames \in Seq(Frames), frames # << >>,
         NEW m \in 0..Len(body.frames), Pending(m),
         m + 1 <= Len(body.frames),
         body' = body, frames' = Tail(frames), Consumed' = Consumed
  PROVE  Head(frames) = body.frames[m + 1] /\ Pending(m + 1)'
<1>1. /\ Len(frames) \in Nat \ {0} /\ m \in Nat
      /\ Len(Tail(frames)) = Len(frames) - 1
      /\ \A i \in 1..Len(Tail(frames)) : Tail(frames)[i] = frames[i + 1]
      /\ Head(frames) = frames[1]
  <2>1. m \in Nat
    BY BodyFacts
  <2>2. QED
    BY <2>1, HeadTailProperties
<1>2. \A i \in 1..Len(frames) : frames[i] = FrameAt(m + i)
  BY DEF Pending
<1>3. Head(frames) = body.frames[m + 1]
  <2>1. 1 \in 1..Len(frames)
    BY <1>1
  <2>2. Head(frames) = FrameAt(m + 1)
    BY <1>1, <1>2, <2>1
  <2>3. QED
    BY <2>2 DEF FrameAt
<1>4. \A k : FrameAt(k)' = FrameAt(k)
  BY DEF FrameAt
<1>5. ASSUME NEW i \in 1..Len(frames')
      PROVE  frames'[i] = FrameAt((m + 1) + i)
  <2>1. i + 1 \in 1..Len(frames) /\ m + (i + 1) = (m + 1) + i
    BY <1>1
  <2>2. frames'[i] = frames[i + 1]
    BY <1>1
  <2>3. frames[i + 1] = FrameAt(m + (i + 1))
    BY <1>2, <2>1
  <2>4. QED
    BY <2>1, <2>2, <2>3
<1>6. (m + 1) + Len(frames') = m + Len(frames)
  BY <1>1
<1>7. Pending(m + 1)'
  BY <1>4, <1>5, <1>6 DEF Pending
<1>8. QED
  BY <1>3, <1>7

(* Only frames of the body are trailers, or good. *)
LEMMA FrameOfBody ==
  ASSUME TypeInv, frames # << >>, NEW m \in 0..Len(body.frames), Pending(m),
         Head(frames).trailer \/ Head(frames).good
  PROVE  m + 1 <= Len(body.frames) /\ m \in Nat /\ Len(body.frames) \in Nat
<1>1. /\ Len(frames) \in Nat \ {0} /\ m \in Nat /\ Len(body.frames) \in Nat
      /\ Head(frames) = frames[1]
  BY BodyFacts DEF TypeInv
<1>2. Head(frames) = FrameAt(m + 1)
  <2>1. 1 \in 1..Len(frames)
    BY <1>1
  <2>2. QED
    BY <1>1, <2>1 DEF Pending
<1>3. FrameAt(m + 1) # NoFrame
  BY <1>2 DEF NoFrame
<1>4. QED
  BY <1>1, <1>3 DEF FrameAt

LEMMA JudgeTrailerStep ==
  ASSUME IInv, JudgeTrailer
  PROVE  IInv'
<1>1. /\ pc = "judge" /\ pc' = pc /\ frames # << >> /\ Head(frames).trailer
      /\ result' = [result EXCEPT !.seenTrailer = TRUE,
                                  !.status_ok = Head(frames).good]
      /\ frames' = Tail(frames)
      /\ body' = body /\ cancel_after' = cancel_after /\ received' = received
      /\ readErr' = readErr /\ encoded' = encoded /\ binary' = binary
  BY DEF JudgeTrailer, config
<1>2. /\ TypeInv /\ TextInv /\ BinaryInv /\ InStep /\ PhaseInv
      /\ result.Error = "none" /\ ~result.Cancelled
      /\ cancel_after > 0 => result.DataFrames < cancel_after
      /\ readErr = "eof" => received = Length(body)
  BY <1>1 DEF IInv, RunningInv
<1>3. PICK m \in 0..Len(body.frames) : SumsUp(m) /\ Pending(m)
  BY <1>2 DEF InStep
<1>4. m + 1 <= Len(body.frames) /\ m \in Nat /\ Len(body.frames) \in Nat
  BY <1>1, <1>2, <1>3, FrameOfBody
<1>5. body \in Bodies /\ frames \in Seq(Frames)
  BY <1>2 DEF TypeInv
<1>6. TextInv' /\ BinaryInv' /\ Consumed' = Consumed /\ HasFrame' = HasFrame
  BY <1>1, <1>2, StreamUnchanged
<1>7. Head(frames) = body.frames[m + 1] /\ Pending(m + 1)'
  BY <1>1, <1>3, <1>4, <1>5, <1>6, JudgedOne
<1>8. Head(frames) \in Frames /\ Tail(frames) \in Seq(Frames)
  BY <1>1, <1>5, HeadTailProperties
<1>9. /\ result' \in [Error : Causes, Cancelled : BOOLEAN, DataFrames : Nat,
                      seenTrailer : BOOLEAN, status_ok : BOOLEAN]
      /\ result'.Error = result.Error /\ result'.Cancelled = result.Cancelled
      /\ result'.DataFrames = result.DataFrames
      /\ result'.seenTrailer = TRUE
      /\ result'.status_ok = Head(frames).good
  BY <1>1, <1>2, <1>8 DEF TypeInv, Frames
<1>10. SumsUp(m + 1)'
  <2>1. DataCount(body, m + 1) = DataCount(body, m)
    BY <1>1, <1>4, <1>7, DataCountFacts
  <2>2. result'.DataFrames = DataCount(body, m + 1)
    BY <1>3, <1>9, <2>1 DEF SumsUp
  <2>3. ASSUME NEW k \in 1..(m + 1), ~body.frames[k].trailer
        PROVE  body.frames[k].good /\ body.frames[k].sequence = DataCount(body, k)
    <3>1. k # m + 1
      BY <1>1, <1>7, <2>3
    <3>2. k \in 1..m
      BY <1>4, <3>1
    <3>3. QED
      BY <1>3, <2>3, <3>2 DEF SumsUp
  <2>4. \E k \in 1..(m + 1) :
          /\ body.frames[k].trailer /\ (result'.status_ok <=> body.frames[k].good)
          /\ \A i \in (k + 1)..(m + 1) : ~body.frames[i].trailer
    <3>1. m + 1 \in 1..(m + 1) /\ \A i \in ((m + 1) + 1)..(m + 1) : FALSE
      BY <1>4
    <3>2. body.frames[m + 1].trailer /\ (result'.status_ok <=> body.frames[m + 1].good)
      BY <1>1, <1>7, <1>9
    <3>3. QED
      BY <3>1, <3>2
  <2>5. QED
    BY <1>1, <1>9, <2>2, <2>3, <2>4 DEF SumsUp
<1>11. InStep'
  <2>1. m + 1 \in 0..Len(body'.frames)
    BY <1>1, <1>4
  <2>2. QED
    BY <1>7, <1>10, <2>1 DEF InStep
<1>12. Length(body)' = Length(body)
  BY <1>1
<1>13. TypeInv'
  BY <1>1, <1>2, <1>8, <1>9, <1>12 DEF TypeInv
<1>14. RunningInv'
  BY <1>1, <1>2, <1>9, <1>11, <1>12 DEF RunningInv
<1>15. VerdictInv'
  <2>1. result'.Error = "none" /\ ~result'.Cancelled /\ pc' # "done"
    BY <1>1, <1>2, <1>9
  <2>2. QED
    BY <2>1, NoVerdict
<1>16. PhaseInv'
  BY <1>1, <1>2, <1>6 DEF PhaseInv
<1>17. QED
  BY <1>6, <1>13, <1>14, <1>15, <1>16 DEF IInv

(* The messages judged so far are good, however many they are. *)
LEMMA JudgedAreGood ==
  ASSUME NEW b \in Bodies, NEW m \in 0..Len(b.frames),
         \A k \in 1..m : ~b.frames[k].trailer =>
           b.frames[k].good /\ b.frames[k].sequence = DataCount(b, k)
  PROVE  GoodUpTo(b, DataCount(b, m))
<1>1. m \in Nat /\ Len(b.frames) \in Nat /\ m <= Len(b.frames)
  BY BodyFacts
<1>2. DataCount(b, m) <= DataCount(b, Len(b.frames))
  BY <1>1, DataCountOrdered
<1>3. ASSUME NEW k \in 1..Len(b.frames), ~b.frames[k].trailer,
             DataCount(b, k) <= DataCount(b, m)
      PROVE  b.frames[k].good /\ b.frames[k].sequence = DataCount(b, k)
  <2>1. ASSUME m < k
        PROVE  FALSE
    <3>1. DataCount(b, m) < DataCount(b, k)
      BY <1>1, <1>3, <2>1, DataCountOrdered
    <3>2. DataCount(b, m) \in Nat /\ DataCount(b, k) \in Nat
      BY <1>1, DataCountFacts
    <3>3. QED
      BY <1>3, <3>1, <3>2
  <2>2. k \in 1..m
    BY <1>1, <2>1
  <2>3. QED
    BY <1>3, <2>2
<1>4. QED
  BY <1>2, <1>3 DEF GoodUpTo

LEMMA JudgeDataStep ==
  ASSUME IInv, JudgeData
  PROVE  IInv'
<1>1. /\ pc = "judge" /\ frames # << >> /\ ~Head(frames).trailer
      /\ frames' = Tail(frames)
      /\ body' = body /\ cancel_after' = cancel_after /\ received' = received
      /\ readErr' = readErr /\ encoded' = encoded /\ binary' = binary
  BY DEF JudgeData, config
<1>2. /\ TypeInv /\ TextInv /\ BinaryInv /\ InStep /\ PhaseInv
      /\ result.Error = "none" /\ ~result.Cancelled
      /\ cancel_after > 0 => result.DataFrames < cancel_after
      /\ readErr = "eof" => received = Length(body)
  BY <1>1 DEF IInv, RunningInv
<1>3. PICK m \in 0..Len(body.frames) : SumsUp(m) /\ Pending(m)
  BY <1>2 DEF InStep
<1>4. /\ body \in Bodies /\ frames \in Seq(Frames)
      /\ m \in Nat /\ Len(body.frames) \in Nat /\ Len(frames) \in Nat \ {0}
  BY <1>1, <1>2, BodyFacts DEF TypeInv
<1>5. TextInv' /\ BinaryInv' /\ Consumed' = Consumed /\ HasFrame' = HasFrame
  BY <1>1, <1>2, StreamUnchanged
<1>6. ASSUME m + 1 <= Len(body.frames)
      PROVE  /\ Head(frames) = body.frames[m + 1] /\ Pending(m + 1)'
             /\ DataCount(body, m + 1) = result.DataFrames + 1
             /\ m + 1 \in 1..Len(body.frames)
  <2>1. Head(frames) = body.frames[m + 1] /\ Pending(m + 1)'
    BY <1>1, <1>3, <1>4, <1>5, <1>6, JudgedOne
  <2>2. DataCount(body, m + 1) = DataCount(body, m) + 1
    BY <1>1, <1>4, <2>1, DataCountFacts
  <2>3. result.DataFrames = DataCount(body, m)
    BY <1>3 DEF SumsUp
  <2>4. QED
    BY <1>4, <1>6, <2>1, <2>2, <2>3
<1>7. Tail(frames) \in Seq(Frames) /\ Head(frames) \in Frames
  BY <1>1, <1>4, HeadTailProperties
<1>8. ASSUME Flawless(body)
      PROVE  Head(frames).good /\ Head(frames).sequence = result.DataFrames + 1
  <2>1. m + 1 <= Len(body.frames)
    <3>1. m + Len(frames) <= Len(body.frames)
      BY <1>2, <1>3, <1>8, FlawlessNext
    <3>2. QED
      BY <1>4, <3>1
  <2>2. /\ DataCount(body, Len(body.frames)) = Messages /\ GoodUpTo(body, Messages)
    BY <1>8 DEF Flawless, WellAnswered
  <2>3. DataCount(body, m + 1) <= Messages
    <3>1. m + 1 \in Nat
      BY <1>4
    <3>2. DataCount(body, m + 1) <= DataCount(body, Len(body.frames))
      BY <1>4, <2>1, <3>1, DataCountOrdered
    <3>3. QED
      BY <2>2, <3>2
  <2>4. /\ body.frames[m + 1].good
        /\ body.frames[m + 1].sequence = DataCount(body, m + 1)
    BY <1>1, <1>6, <2>1, <2>2, <2>3 DEF GoodUpTo
  <2>5. QED
    BY <1>6, <2>1, <2>4
<1>9. CASE \/ ~Head(frames).good
           \/ Head(frames).sequence # result.DataFrames + 1
  <2>1. PICK why \in {"parse", "sequence"} : Fail(why)
    BY <1>9 DEF JudgeData
  <2>2. ~Flawless(body)
    BY <1>8, <1>9
  <2>3. /\ why \in Causes \ {"none"} /\ pc # "done"
        /\ frames' \in Seq(Frames)
        /\ UNCHANGED <<config, received, readErr, encoded, binary>>
    BY <1>1, <1>7 DEF Causes, config
  <2>4. QED
    BY <2>1, <2>2, <2>3, FailStep
<1>10. CASE Head(frames).good /\ Head(frames).sequence = result.DataFrames + 1
  <2>1. /\ result' = [result EXCEPT !.DataFrames = @ + 1, !.Cancelled = Enough]
        /\ pc' = IF Enough THEN "done" ELSE "judge"
    BY <1>10 DEF JudgeData
  <2>2. m + 1 <= Len(body.frames)
    BY <1>1, <1>2, <1>3, <1>10, FrameOfBody
  <2>3. /\ Head(frames) = body.frames[m + 1] /\ Pending(m + 1)'
        /\ DataCount(body, m + 1) = result.DataFrames + 1
        /\ m + 1 \in 1..Len(body.frames)
    BY <1>6, <2>2
  <2>4. Enough \in BOOLEAN
    BY DEF Enough
  <2>5. /\ result' \in [Error : Causes, Cancelled : BOOLEAN, DataFrames : Nat,
                        seenTrailer : BOOLEAN, status_ok : BOOLEAN]
        /\ result'.Error = result.Error
        /\ result'.DataFrames = result.DataFrames + 1
        /\ result'.seenTrailer = result.seenTrailer
        /\ result'.status_ok = result.status_ok
        /\ result'.Cancelled = Enough
    <3> DEFINE more == result.DataFrames + 1
    <3>1. result \in [Error : Causes, Cancelled : BOOLEAN, DataFrames : Nat,
                      seenTrailer : BOOLEAN, status_ok : BOOLEAN]
      BY <1>2 DEF TypeInv
    <3>2. result.DataFrames \in Nat
      BY <3>1
    <3>3. more \in Nat
      BY <3>2
    <3>4. result' = [result EXCEPT !.DataFrames = more, !.Cancelled = Enough]
      BY <2>1
    <3> HIDE DEF more
    <3>5. /\ result' \in [Error : Causes, Cancelled : BOOLEAN, DataFrames : Nat,
                          seenTrailer : BOOLEAN, status_ok : BOOLEAN]
          /\ result'.Error = result.Error
          /\ result'.DataFrames = more
          /\ result'.seenTrailer = result.seenTrailer
          /\ result'.status_ok = result.status_ok
          /\ result'.Cancelled = Enough
      BY <2>4, <3>1, <3>3, <3>4
    <3>6. QED
      BY <3>5 DEF more
  <2>6. \A k \in 1..(m + 1) : ~body.frames[k].trailer =>
          body.frames[k].good /\ body.frames[k].sequence = DataCount(body, k)
    <3>1. ASSUME NEW k \in 1..(m + 1), ~body.frames[k].trailer
          PROVE  body.frames[k].good /\ body.frames[k].sequence = DataCount(body, k)
      <4>1. CASE k = m + 1
        BY <1>10, <2>3, <4>1
      <4>2. CASE k # m + 1
        <5>1. k \in 1..m
          BY <1>4, <4>2
        <5>2. QED
          BY <1>3, <3>1, <5>1 DEF SumsUp
      <4>3. QED
        BY <4>1, <4>2
    <3>2. QED
      BY <3>1
  <2>7. SumsUp(m + 1)'
    <3>1. ~body.frames[m + 1].trailer
      BY <1>1, <2>3
    <3>2. ASSUME result.seenTrailer
          PROVE  \E k \in 1..(m + 1) :
                   /\ body.frames[k].trailer
                   /\ (result.status_ok <=> body.frames[k].good)
                   /\ \A i \in (k + 1)..(m + 1) : ~body.frames[i].trailer
      <4>1. PICK k \in 1..m :
              /\ body.frames[k].trailer
              /\ (result.status_ok <=> body.frames[k].good)
              /\ \A i \in (k + 1)..m : ~body.frames[i].trailer
        BY <1>3, <3>2 DEF SumsUp
      <4>2. k \in 1..(m + 1)
        BY <1>4
      <4>3. \A i \in (k + 1)..(m + 1) : i \in (k + 1)..m \/ i = m + 1
        BY <1>4
      <4>4. \A i \in (k + 1)..(m + 1) : ~body.frames[i].trailer
        BY <3>1, <4>1, <4>3
      <4>5. QED
        BY <4>1, <4>2, <4>4
    <3>3. ASSUME ~result.seenTrailer
          PROVE  \A k \in 1..(m + 1) : ~body.frames[k].trailer
      <4>1. \A k \in 1..m : ~body.frames[k].trailer
        BY <1>3, <3>3 DEF SumsUp
      <4>2. \A k \in 1..(m + 1) : k \in 1..m \/ k = m + 1
        BY <1>4
      <4>3. QED
        BY <3>1, <4>1, <4>2
    <3>4. result'.DataFrames = DataCount(body, m + 1)
      BY <2>3, <2>5
    <3>5. QED
      BY <1>1, <2>5, <2>6, <3>2, <3>3, <3>4 DEF SumsUp
  <2>8. InStep'
    <3>1. m + 1 \in 0..Len(body'.frames)
      BY <1>1, <1>4, <2>3
    <3>2. QED
      BY <2>3, <2>7, <3>1 DEF InStep
  <2>9. Length(body)' = Length(body)
    BY <1>1
  <2>10. TypeInv'
    <3>1. pc' \in {"start", "read", "decode", "consume", "judge", "done"}
      BY <2>1
    <3>2. QED
      BY <1>1, <1>2, <1>7, <2>5, <2>9, <3>1 DEF TypeInv
  <2>11. cancel_after \in Nat /\ result.DataFrames \in Nat
    BY <1>2, LoadAssumption DEF TypeInv
  <2>12. RunningInv'
    <3>1. ASSUME pc' # "done"
          PROVE  ~Enough
      BY <2>1, <3>1
    <3>2. ASSUME ~Enough, cancel_after > 0
          PROVE  result.DataFrames + 1 < cancel_after
      BY <2>11, <3>2 DEF Enough
    <3>3. ASSUME pc' # "done"
          PROVE  /\ InStep' /\ result'.Error = "none" /\ ~result'.Cancelled
                 /\ cancel_after' > 0 => result'.DataFrames < cancel_after'
                 /\ readErr' = "eof" => received' = Length(body)'
      <4>1. ~Enough
        BY <3>1, <3>3
      <4>2. ~result'.Cancelled
        BY <2>5, <4>1
      <4>3. cancel_after' > 0 => result'.DataFrames < cancel_after'
        BY <1>1, <2>5, <3>2, <4>1
      <4>4. readErr' = "eof" => received' = Length(body)'
        BY <1>1, <1>2, <2>9
      <4>5. result'.Error = "none"
        BY <1>2, <2>5
      <4>6. QED
        BY <2>8, <4>2, <4>3, <4>4, <4>5
    <3>4. QED
      BY <3>3 DEF RunningInv
  <2>13. VerdictInv'
    <3>1. CASE ~Enough
      <4>1. result'.Error = "none" /\ ~result'.Cancelled /\ pc' # "done"
        BY <1>2, <2>1, <2>5, <3>1
      <4>2. QED
        BY <4>1, NoVerdict
    <3>2. CASE Enough
      <4>1. result.DataFrames + 1 = cancel_after
        BY <1>2, <2>11, <3>2 DEF Enough
      <4>2. GoodUpTo(body, cancel_after)
        <5>1. m + 1 \in 0..Len(body.frames)
          BY <1>4, <2>3
        <5>2. GoodUpTo(body, DataCount(body, m + 1))
          BY <1>4, <2>6, <5>1, JudgedAreGood
        <5>3. QED
          BY <2>3, <4>1, <5>2
      <4>3. result'.Error = "none" /\ result'.Cancelled
        BY <1>2, <2>5, <3>2
      <4>4. result'.DataFrames = cancel_after' /\ GoodUpTo(body, cancel_after)'
        BY <1>1, <2>5, <4>1, <4>2
      <4>5. QED
        BY <4>3, <4>4 DEF VerdictInv, PassedMeansWhole, CancelledOnOrder, FailsForCause, Passed
    <3>3. QED
      BY <3>1, <3>2
  <2>14. PhaseInv'
    <3>1. pc' \in {"judge", "done"}
      BY <2>1
    <3>2. Len(encoded') < 4 /\ ~HasFrame'
      BY <1>1, <1>2, <1>5 DEF PhaseInv
    <3>3. QED
      BY <3>1, <3>2 DEF PhaseInv
  <2>15. QED
    BY <1>5, <2>10, <2>12, <2>13, <2>14 DEF IInv
<1>11. QED
  BY <1>9, <1>10

(* At the end of the body nothing is left, unless a frame or a quartet is
   not whole. *)
LEMMA AllTaken ==
  ASSUME TypeInv, TextInv, BinaryInv, frames = << >>,
         received = Length(body), encoded = << >>, binary = << >>,
         NEW m \in 0..Len(body.frames), Pending(m)
  PROVE  m = Len(body.frames) /\ body.eof = Whole(body)
<1>1. /\ body \in Bodies /\ Length(body) \in Nat /\ QuartetCount(body) \in Nat
      /\ body.text => /\ Taken \in Nat
                      /\ received = 4 * Taken + Len(encoded)
                      /\ Length(body) = 4 * QuartetCount(body)
      /\ ~body.text => Length(body) = body.eof
      /\ Reached \in Nat /\ Reached = Consumed + Len(binary)
      /\ Consumed \in Nat
  BY StateFacts
<1>2. /\ Len(body.frames) \in Nat /\ m \in Nat /\ body.eof \in Nat
      /\ m <= Len(body.frames)
      /\ body.text => SumTo(body.blocks, Len(body.blocks)) = body.eof
      /\ \A k \in 1..Len(body.frames) : StartOf(body, k) < body.eof
  BY <1>1, BodyFacts
<1>3. Reached = body.eof
  <2>1. CASE body.text
    <3>1. Len(encoded) = 0
      OBVIOUS
    <3>2. Taken = QuartetCount(body)
      BY <1>1, <2>1, <3>1
    <3>3. Reached = Reach(body, QuartetCount(body))
      BY <2>1, <3>2 DEF Reached
    <3>4. CASE QuartetCount(body) = 0
      <4>1. Len(body.blocks) \in 0..Len(body.blocks) /\ 0 \in 0..Len(body.blocks)
        BY <1>1, BodyFacts
      <4>2. SumTo(Quartets(body), Len(body.blocks)) = 0
        BY <3>4 DEF QuartetCount
      <4> DEFINE n == Len(body.blocks)
      <4>3. /\ SumTo(body.blocks, n) - SumTo(body.blocks, 0)
                 <= 3 * (SumTo(Quartets(body), n) - SumTo(Quartets(body), 0))
        BY <1>1, <4>1, BlocksOrdered
      <4>4. /\ SumTo(body.blocks, n) \in Nat
            /\ SumTo(body.blocks, 0) = 0 /\ SumTo(Quartets(body), 0) = 0
        BY <1>1, <4>1, BlockFacts
      <4>5. SumTo(body.blocks, n) = 0
        BY <4>2, <4>3, <4>4
      <4>6. Reached = 0
        BY <3>3, <3>4 DEF Reach
      <4>7. QED
        BY <1>2, <2>1, <4>5, <4>6
    <3>5. CASE QuartetCount(body) # 0
      <4>1. QuartetCount(body) \in 1..QuartetCount(body)
        BY <1>1, <3>5
      <4>2. Reach(body, QuartetCount(body)) = SumTo(body.blocks, Len(body.blocks))
        BY <1>1, <4>1, OctetsFollow
      <4>3. QED
        BY <1>2, <2>1, <3>3, <4>2
    <3>6. QED
      BY <3>4, <3>5
  <2>2. CASE ~body.text
    BY <1>1, <2>2 DEF Reached
  <2>3. QED
    BY <2>1, <2>2
<1>4. Consumed = body.eof
  <2>1. Len(binary) = 0
    OBVIOUS
  <2>2. QED
    BY <1>1, <1>3, <2>1
<1>5. Consumed = StartOf(body, m + 1)
  <2>1. Len(frames) = 0
    OBVIOUS
  <2>2. m + Len(frames) = m
    BY <1>2, <2>1
  <2>3. QED
    BY <1>2, <2>2 DEF Pending
<1>6. m = Len(body.frames)
  <2>1. ASSUME m # Len(body.frames)
        PROVE  FALSE
    <3>1. m + 1 \in 1..Len(body.frames)
      BY <1>2, <2>1
    <3>2. StartOf(body, m + 1) < body.eof
      BY <1>2, <3>1
    <3>3. QED
      BY <1>2, <1>4, <1>5, <3>2
  <2>2. QED
    BY <2>1
<1>7. body.eof = Whole(body)
  BY <1>1, <1>4, <1>5, <1>6, StartFacts
<1>8. QED
  BY <1>6, <1>7

LEMMA FinishStep ==
  ASSUME IInv, Finish
  PROVE  IInv'
<1>1. /\ pc = "judge" /\ frames = << >> /\ readErr = "eof"
      /\ UNCHANGED <<config, received, readErr, encoded, binary, frames>>
  BY DEF Finish, AtEof
<1>2. /\ TypeInv /\ TextInv /\ BinaryInv /\ InStep /\ PhaseInv
      /\ result.Error = "none" /\ ~result.Cancelled
      /\ cancel_after > 0 => result.DataFrames < cancel_after
      /\ received = Length(body)
  BY <1>1 DEF IInv, RunningInv
<1>3. PICK m \in 0..Len(body.frames) : SumsUp(m) /\ Pending(m)
  BY <1>2 DEF InStep
<1>4. ASSUME ~Leftover
      PROVE  /\ m = Len(body.frames) /\ body.eof = Whole(body)
             /\ result.DataFrames = DataCount(body, Len(body.frames))
  <2>1. encoded = << >> /\ binary = << >>
    BY <1>4 DEF Leftover
  <2>2. m = Len(body.frames) /\ body.eof = Whole(body)
    BY <1>1, <1>2, <1>3, <2>1, AllTaken
  <2>3. QED
    BY <1>3, <2>2 DEF SumsUp
<1>5. ASSUME Flawless(body)
      PROVE  /\ ~Leftover /\ result.DataFrames = Messages
             /\ result.seenTrailer /\ result.status_ok
  <2>1. ~Leftover
    <3>1. Len(encoded) < 4 /\ ~HasFrame
      BY <1>1, <1>2 DEF PhaseInv
    <3>2. /\ Len(encoded) \in Nat /\ Len(binary) \in Nat /\ QuartetCount(body) \in Nat
          /\ body.text => /\ Taken \in Nat /\ received = 4 * Taken + Len(encoded)
                          /\ Length(body) = 4 * QuartetCount(body)
          /\ ~body.text => Length(body) = body.eof
          /\ Reached = Consumed + Len(binary) /\ Consumed \in Nat
          /\ body \in Bodies
      BY <1>2, StateFacts
    <3>3. encoded = << >>
      <4>1. CASE body.text
        <5>1. Len(encoded) = 0
          BY <1>2, <3>1, <3>2, <4>1
        <5>2. QED
          BY <1>2, <5>1 DEF TypeInv
      <4>2. CASE ~body.text
        BY <1>2, <4>2 DEF TextInv
      <4>3. QED
        BY <4>1, <4>2
    <3>4. ASSUME binary # << >>
          PROVE  FALSE
      <4> DEFINE n == Len(body.frames)
      <4>1. Len(binary) >= 1
        BY <1>2, <3>4, StateFacts
      <4>2. m + Len(frames) + 1 <= n
        BY <1>2, <1>3, <1>5, <4>1, FlawlessNext
      <4>3. Len(frames) = 0 /\ m \in Nat /\ n \in Nat
        BY <1>1, <3>2, BodyFacts
      <4>4. m + 1 \in 1..n /\ m + Len(frames) <= n /\ m + Len(frames) + 1 = m + 1
        BY <4>2, <4>3
      <4>5. Consumed = StartOf(body, m + 1)
        BY <1>3, <4>4 DEF Pending
      <4>6. body.eof = Whole(body)
        BY <1>5 DEF Flawless, WellAnswered
      <4>7. Reached = body.eof
        <5>1. CASE body.text
          <6>1. Len(encoded) = 0
            BY <3>3
          <6>2. Taken = QuartetCount(body)
            BY <1>2, <3>2, <5>1, <6>1
          <6>3. Reached = Reach(body, QuartetCount(body))
            BY <5>1, <6>2 DEF Reached
          <6>4. Taken # 0
            <7>1. Taken = 0 => Reached = 0
              BY <5>1 DEF Reached, Reach
            <7>2. QED
              BY <3>2, <4>1, <7>1
          <6>5. QuartetCount(body) \in 1..QuartetCount(body)
            BY <3>2, <6>2, <6>4
          <6>6. Reach(body, QuartetCount(body)) = SumTo(body.blocks, Len(body.blocks))
            BY <3>2, <6>5, OctetsFollow
          <6>7. SumTo(body.blocks, Len(body.blocks)) = body.eof
            BY <3>2, <5>1, BodyFacts
          <6>8. QED
            BY <6>3, <6>6, <6>7
        <5>2. CASE ~body.text
          BY <1>2, <3>2, <5>2 DEF Reached
        <5>3. QED
          BY <5>1, <5>2
      <4>8. /\ StartOf(body, m + 1) + body.frames[m + 1].size <= Whole(body)
            /\ body.frames[m + 1].size \in Nat /\ body.frames[m + 1].size >= HeaderSize
            /\ HeaderSize \in Nat
        <5>1. n + 1 \in ((m + 1) + 1)..(n + 1)
          BY <4>3, <4>4
        <5>2. StartOf(body, m + 1) + body.frames[m + 1].size <= StartOf(body, n + 1)
          BY <3>2, <4>4, <5>1, StartOrdered
        <5>3. QED
          BY <3>2, <4>4, <5>2, StartFacts, BodyFacts
      <4>9. Len(binary) >= body.frames[m + 1].size /\ Len(binary) >= HeaderSize
        <5> DEFINE z == body.frames[m + 1].size
        <5>1. /\ z \in Nat /\ z >= HeaderSize /\ HeaderSize \in Nat
              /\ Consumed + z <= Consumed + Len(binary)
          BY <3>2, <4>5, <4>6, <4>7, <4>8
        <5> HIDE DEF z
        <5>2. Len(binary) >= z /\ Len(binary) >= HeaderSize
          BY <3>2, <5>1
        <5>3. QED
          BY <5>2 DEF z
      <4>10. HasHeader
        BY <4>9 DEF HasHeader
      <4>11. Announced = FrameAt(m + 1)
        <5>1. Announced = FrameAt(m + Len(frames) + 1)
          BY <1>2, <1>3, <4>10, NextAnnounced
        <5>2. QED
          BY <4>4, <5>1
      <4>12. Announced = body.frames[m + 1]
        BY <4>4, <4>11 DEF FrameAt
      <4>13. HasFrame
        BY <4>9, <4>10, <4>12 DEF HasFrame
      <4>14. QED
        BY <3>1, <4>13
    <3>5. QED
      BY <3>3, <3>4 DEF Leftover
  <2>2. m = Len(body.frames) /\ result.DataFrames = DataCount(body, Len(body.frames))
    BY <1>4, <2>1
  <2>3. DataCount(body, Len(body.frames)) = Messages /\ EndsWell(body)
    BY <1>5 DEF Flawless, WellAnswered
  <2>4. PICK k \in 1..Len(body.frames) :
          /\ body.frames[k].trailer /\ body.frames[k].good
          /\ \A i \in (k + 1)..Len(body.frames) : ~body.frames[i].trailer
    BY <2>3 DEF EndsWell
  <2>5. result.seenTrailer
    <3>1. ASSUME ~result.seenTrailer
          PROVE  FALSE
      <4>1. \A i \in 1..m : ~body.frames[i].trailer
        BY <1>3, <3>1 DEF SumsUp
      <4>2. QED
        BY <2>2, <2>4, <4>1
    <3>2. QED
      BY <3>1
  <2>6. result.status_ok
    <3>1. PICK j \in 1..m :
            /\ body.frames[j].trailer
            /\ (result.status_ok <=> body.frames[j].good)
            /\ \A i \in (j + 1)..m : ~body.frames[i].trailer
      BY <1>3, <2>5 DEF SumsUp
    <3>2. j = k
      <4>1. ~(j < k)
        <5>1. j < k => k \in (j + 1)..m
          BY <2>2
        <5>2. QED
          BY <2>4, <3>1, <5>1
      <4>2. ~(k < j)
        <5>1. k < j => j \in (k + 1)..Len(body.frames)
          BY <2>2
        <5>2. QED
          BY <2>4, <3>1, <5>1
      <4>3. j \in Nat /\ k \in Nat
        OBVIOUS
      <4>4. QED
        BY <4>1, <4>2, <4>3
    <3>3. QED
      BY <2>4, <3>1, <3>2
  <2>7. QED
    BY <2>1, <2>2, <2>3, <2>5, <2>6
<1>6. ASSUME NEW why \in {"incomplete", "count", "trailer", "status"}, Fail(why),
             ~Flawless(body)
      PROVE  IInv'
  <2>1. why \in Causes \ {"none"} /\ pc # "done" /\ frames' \in Seq(Frames)
    BY <1>1, <1>2 DEF Causes, TypeInv
  <2>2. UNCHANGED <<config, received, readErr, encoded, binary>>
    BY <1>1
  <2>3. QED
    BY <1>6, <2>1, <2>2, FailStep
<1>7. CASE Leftover
  <2>1. Fail("incomplete")
    BY <1>7 DEF Finish
  <2>2. QED
    BY <1>5, <1>6, <1>7, <2>1
<1>8. CASE ~Leftover /\ result.DataFrames # Messages
  <2>1. Fail("count")
    BY <1>8 DEF Finish
  <2>2. QED
    BY <1>5, <1>6, <1>8, <2>1
<1>9. CASE ~Leftover /\ result.DataFrames = Messages /\ ~result.seenTrailer
  <2>1. Fail("trailer")
    BY <1>9 DEF Finish
  <2>2. QED
    BY <1>5, <1>6, <1>9, <2>1
<1>10. CASE /\ ~Leftover /\ result.DataFrames = Messages /\ result.seenTrailer
            /\ ~result.status_ok
  <2>1. Fail("status")
    BY <1>10 DEF Finish
  <2>2. QED
    BY <1>5, <1>6, <1>10, <2>1
<1>11. CASE /\ ~Leftover /\ result.DataFrames = Messages /\ result.seenTrailer
            /\ result.status_ok
  <2>1. /\ pc' = "done" /\ result' = result
        /\ body' = body /\ cancel_after' = cancel_after /\ received' = received
        /\ readErr' = readErr /\ encoded' = encoded /\ binary' = binary
        /\ frames' = frames
    BY <1>1, <1>11 DEF Finish, config
  <2>2. /\ m = Len(body.frames) /\ body.eof = Whole(body)
        /\ DataCount(body, Len(body.frames)) = Messages
    BY <1>4, <1>11
  <2>3. EndsWell(body)
    BY <1>3, <1>11, <2>2 DEF SumsUp, EndsWell
  <2>4. GoodUpTo(body, Messages)
    <3>1. body \in Bodies
      BY <1>2 DEF TypeInv
    <3>2. \A k \in 1..m : ~body.frames[k].trailer =>
            body.frames[k].good /\ body.frames[k].sequence = DataCount(body, k)
      BY <1>3 DEF SumsUp
    <3>3. GoodUpTo(body, DataCount(body, m))
      BY <3>1, <3>2, JudgedAreGood
    <3>4. QED
      BY <2>2, <3>3
  <2>5. WellAnswered(body)
    BY <2>2, <2>3, <2>4 DEF WellAnswered
  <2>6. cancel_after = 0
    <3>1. cancel_after \in 0..(Messages - 1) /\ Messages \in Nat
      BY <1>2, LoadAssumption DEF TypeInv
    <3>2. QED
      BY <1>2, <1>11, <3>1
  <2>7. VerdictInv'
    <3>1. WellAnswered(body)' /\ cancel_after' = 0
      BY <2>1, <2>5, <2>6
    <3>2. result'.Error = "none" /\ ~result'.Cancelled
      BY <1>2, <2>1
    <3>3. QED
      BY <3>1, <3>2 DEF VerdictInv, PassedMeansWhole, CancelledOnOrder, FailsForCause, Passed
  <2>8. TextInv' /\ BinaryInv'
    BY <1>2, <2>1, StreamUnchanged
  <2>9. TypeInv'
    <3>1. Length(body)' = Length(body)
      BY <2>1
    <3>2. QED
      BY <1>2, <2>1, <3>1 DEF TypeInv
  <2>10. RunningInv' /\ PhaseInv'
    BY <2>1 DEF RunningInv, PhaseInv
  <2>11. QED
    BY <2>7, <2>8, <2>9, <2>10 DEF IInv
<1>12. QED
  BY <1>7, <1>8, <1>9, <1>10, <1>11

LEMMA StutterStep ==
  ASSUME IInv, UNCHANGED vars
  PROVE  IInv'
<1>1. /\ body' = body /\ cancel_after' = cancel_after /\ pc' = pc
      /\ received' = received /\ readErr' = readErr /\ encoded' = encoded
      /\ binary' = binary /\ frames' = frames /\ result' = result
  BY DEF vars, config
<1>2. TypeInv /\ TextInv /\ BinaryInv /\ RunningInv /\ PhaseInv /\ VerdictInv
  BY DEF IInv
<1>3. TextInv' /\ BinaryInv' /\ Consumed' = Consumed /\ HasFrame' = HasFrame
  BY <1>1, <1>2, StreamUnchanged
<1>4. Length(body)' = Length(body) /\ WellAnswered(body)' = WellAnswered(body)
      /\ Flawless(body)' = Flawless(body) /\ GoodUpTo(body, cancel_after)' = GoodUpTo(body, cancel_after)
  BY <1>1
<1>5. TypeInv'
  BY <1>1, <1>2, <1>4 DEF TypeInv
<1>6. RunningInv'
  <2>1. pc # "done" => InStep'
    BY <1>1, <1>2, <1>3, InStepKept DEF RunningInv
  <2>2. QED
    BY <1>1, <1>2, <1>4, <2>1 DEF RunningInv
<1>7. PhaseInv'
  BY <1>1, <1>2, <1>3 DEF PhaseInv
<1>8. VerdictInv'
  BY <1>1, <1>2, <1>4 DEF VerdictInv, PassedMeansWhole, CancelledOnOrder, FailsForCause, Passed
<1>9. QED
  BY <1>3, <1>5, <1>6, <1>7, <1>8 DEF IInv

LEMMA Inductive == IInv /\ [Next]_vars => IInv'
<1> SUFFICES ASSUME IInv, [Next]_vars
             PROVE  IInv'
  OBVIOUS
<1>1. CASE \E why \in {"request", "response"} : NoResponse(why)
  BY <1>1, NoResponseStep
<1>2. CASE Response
  BY <1>2, ResponseStep
<1>3. CASE \E n \in 0..(Length(body) - received), err \in {"none", "eof", "failed"} :
             Read(n, err)
  BY <1>3, ReadStep
<1>4. CASE DecodeBlock
  BY <1>4, DecodeBlockStep
<1>5. CASE DecodeEnds
  BY <1>5, DecodeEndsStep
<1>6. CASE RefuseFrame
  BY <1>6, RefuseFrameStep
<1>7. CASE TakeFrame
  BY <1>7, TakeFrameStep
<1>8. CASE ConsumeEnds
  BY <1>8, ConsumeEndsStep
<1>9. CASE JudgeTrailer
  BY <1>9, JudgeTrailerStep
<1>10. CASE JudgeData
  BY <1>10, JudgeDataStep
<1>11. CASE ReadOn
  BY <1>11, ReadOnStep
<1>12. CASE Finish
  BY <1>12, FinishStep
<1>13. CASE UNCHANGED vars
  BY <1>13, StutterStep
<1>14. QED
  BY <1>1, <1>2, <1>3, <1>4, <1>5, <1>6, <1>7, <1>8, <1>9, <1>10, <1>11,
     <1>12, <1>13 DEF Next, Work, Over

LEMMA AlwaysIInv == Spec => []IInv
  BY InitStep, Inductive, PTL DEF Spec

(* Whatever the gateway sends and however the network cuts it, a stream
   passes only when all of it came and was good (main.go, 331-348). *)
THEOREM PassingMeansWhole == Spec => []PassedMeansWhole
<1>1. IInv => PassedMeansWhole
  BY DEF IInv, VerdictInv
<1>2. QED
  BY <1>1, AlwaysIInv, PTL

(* A cancellation comes at the frame it was ordered for, after good frames
   only, and a stream that was to be cancelled never passes (main.go, 307). *)
THEOREM CancelsOnOrder == Spec => []CancelledOnOrder
<1>1. IInv => CancelledOnOrder
  BY DEF IInv, VerdictInv
<1>2. QED
  BY <1>1, AlwaysIInv, PTL

(* No cut of the network and no way of encoding the blocks makes the client
   find fault with a flawless response (protocol.go, 32-57 and 93-111). *)
THEOREM FlawlessNeverFaulted == Spec => []FailsForCause
<1>1. IInv => FailsForCause
  BY DEF IInv, VerdictInv
<1>2. QED
  BY <1>1, AlwaysIInv, PTL

(* Between reads the decoder keeps less than a quartet and less than a frame
   (protocol.go, 51-53 and 117-119). *)
THEOREM TailOnly == Spec => []KeepsOnlyTail
<1>1. IInv => KeepsOnlyTail
  BY DEF IInv, PhaseInv, KeepsOnlyTail
<1>2. QED
  BY <1>1, AlwaysIInv, PTL

-----------------------------------------------------------------------------
(* How far a stream is from its verdict: what is still to be read, decoded, *)
(* taken and judged, and the turns that the loops still owe.                *)

StepsLeft ==
  CASE pc = "start"   -> 4
    [] pc = "decode"  -> 6
    [] pc = "consume" -> 5
    [] pc = "judge"   -> (IF readErr = "none" THEN 4 ELSE 2)
    [] pc = "read"    -> 3
    [] pc = "done"    -> 0

Rank == 5 * (Length(body) - received) + Len(encoded)
          + 2 * (body.eof - Consumed) + Len(frames) + StepsLeft

LEMMA RankParts ==
  ASSUME IInv
  PROVE  /\ Length(body) \in Nat /\ received \in Nat /\ received <= Length(body)
         /\ body.eof \in Nat /\ Consumed \in Nat /\ Consumed <= body.eof
         /\ Len(encoded) \in Nat /\ Len(frames) \in Nat /\ Len(binary) \in Nat
         /\ StepsLeft \in Nat
<1>1. /\ Length(body) \in Nat /\ received \in Nat /\ received <= Length(body)
      /\ Len(encoded) \in Nat /\ Len(frames) \in Nat /\ Len(binary) \in Nat
      /\ Reached \in Nat /\ Reached <= body.eof /\ body \in Bodies
      /\ Consumed \in Nat /\ Reached = Consumed + Len(binary)
  BY StateFacts DEF IInv
<1>2. body.eof \in Nat
  BY <1>1, BodyFacts
<1>3. Consumed <= body.eof
  BY <1>1, <1>2
<1>4. pc \in {"start", "read", "decode", "consume", "judge", "done"}
  BY DEF IInv, TypeInv
<1>5. StepsLeft \in Nat
  BY <1>4 DEF StepsLeft
<1>6. QED
  BY <1>1, <1>2, <1>3, <1>5

LEMMA RankIsNat == IInv => Rank \in Nat
<1> SUFFICES ASSUME IInv
             PROVE  Rank \in Nat
  OBVIOUS
<1>1. ASSUME NEW l \in Nat, NEW r \in Nat, r <= l, NEW e \in Nat,
             NEW o \in Nat, NEW c \in Nat, c <= o, NEW f \in Nat, NEW t \in Nat
      PROVE  5 * (l - r) + e + 2 * (o - c) + f + t \in Nat
  BY <1>1
<1>2. QED
  BY <1>1, RankParts DEF Rank

(* The rank after a step that leaves the body alone. *)
LEMMA RankAfter ==
  ASSUME body' = body
  PROVE  Rank' = 5 * (Length(body) - received') + Len(encoded')
                   + 2 * (body.eof - Consumed') + Len(frames') + StepsLeft'
<1>1. Length(body)' = Length(body)
  BY DEF Length
<1>2. QED
  BY <1>1 DEF Rank

(* Turns that only move on, judge or give the verdict. *)
LEMMA MovesNearer ==
  ASSUME IInv, UNCHANGED <<body, received, encoded, binary>>,
         Len(frames') \in Nat, StepsLeft' \in Nat,
         Len(frames') + StepsLeft' < Len(frames) + StepsLeft
  PROVE  Rank' < Rank
<1>1. Consumed' = Consumed
  BY StreamUnchanged DEF IInv
<1>2. Rank' = 5 * (Length(body) - received) + Len(encoded)
                + 2 * (body.eof - Consumed) + Len(frames') + StepsLeft'
  BY <1>1, RankAfter
<1>3. ASSUME NEW l \in Nat, NEW r \in Nat, NEW e \in Nat, NEW o \in Nat, NEW c \in Nat,
             NEW f \in Nat, NEW t \in Nat, NEW g \in Nat, NEW u \in Nat,
             g + u < f + t
      PROVE  5 * (l - r) + e + 2 * (o - c) + g + u
               < 5 * (l - r) + e + 2 * (o - c) + f + t
  BY <1>3
<1>4. /\ Length(body) \in Nat /\ received \in Nat /\ Len(encoded) \in Nat
      /\ body.eof \in Nat /\ Consumed \in Nat
      /\ Len(frames) \in Nat /\ StepsLeft \in Nat
      /\ Len(frames') \in Nat /\ StepsLeft' \in Nat
      /\ Len(frames') + StepsLeft' < Len(frames) + StepsLeft
  BY RankParts
<1>5. Rank = 5 * (Length(body) - received) + Len(encoded)
               + 2 * (body.eof - Consumed) + Len(frames) + StepsLeft
  BY DEF Rank
<1>6. 5 * (Length(body) - received) + Len(encoded)
          + 2 * (body.eof - Consumed) + Len(frames') + StepsLeft'
        < 5 * (Length(body) - received) + Len(encoded)
          + 2 * (body.eof - Consumed) + Len(frames) + StepsLeft
  BY ONLY <1>3, <1>4, Zenon
<1>7. QED
  BY ONLY <1>2, <1>5, <1>6, Zenon

LEMMA FailsNearer ==
  ASSUME IInv, NEW why, Fail(why), pc # "done",
         UNCHANGED <<body, received, encoded, binary>>,
         Len(frames') \in Nat, Len(frames') <= Len(frames)
  PROVE  Rank' < Rank
<1>1. StepsLeft' = 0
  BY DEF Fail, StepsLeft
<1>2. StepsLeft \in Nat /\ StepsLeft > 0
  <2>1. pc \in {"start", "read", "decode", "consume", "judge"}
    BY DEF IInv, TypeInv
  <2>2. QED
    BY <2>1 DEF StepsLeft
<1>3. Len(frames') + StepsLeft' < Len(frames) + StepsLeft
  BY <1>1, <1>2, RankParts
<1>4. QED
  BY <1>1, <1>3, MovesNearer

LEMMA ReadNearer ==
  ASSUME IInv, NEW n \in 0..(Length(body) - received),
         NEW err \in {"none", "eof", "failed"}, Read(n, err)
  PROVE  Rank' < Rank
<1> DEFINE chunk == [i \in 1..n |-> received + i - 1]
<1>1. /\ pc = "read" /\ received' = received + n /\ readErr' = err
      /\ n # 0 \/ err # "none"
      /\ body' = body /\ frames' = frames
      /\ pc' = IF n = 0 THEN "judge" ELSE IF body.text THEN "decode" ELSE "consume"
  BY DEF Read, config
<1>2. /\ body.text => encoded' = encoded \o chunk /\ binary' = binary
      /\ ~body.text => binary' = binary \o chunk /\ encoded' = encoded
  BY DEF Read
<1>3. /\ Length(body) \in Nat /\ received \in Nat /\ received <= Length(body)
      /\ body.eof \in Nat /\ Consumed \in Nat /\ Consumed <= body.eof
      /\ Len(encoded) \in Nat /\ Len(frames) \in Nat /\ Len(binary) \in Nat
  BY RankParts
<1>4. n \in Nat /\ encoded \in Seq(Nat) /\ binary \in Seq(Nat)
  BY <1>3 DEF IInv, TypeInv
<1>5. chunk \in Seq(Nat) /\ Len(chunk) = n
  BY <1>3, <1>4
<1> HIDE DEF chunk
<1>6. Consumed' = Consumed /\ Len(encoded') \in Nat /\ Len(encoded') <= Len(encoded) + n
  <2>1. CASE body.text
    <3>1. Len(encoded') = Len(encoded) + n /\ binary' = binary
      BY <1>2, <1>4, <1>5, <2>1, ConcatProperties
    <3>2. received' - Len(encoded') = received - Len(encoded)
      BY <1>1, <1>3, <1>4, <3>1
    <3>3. Taken' = Taken
      BY <3>2 DEF Taken
    <3>4. Reached' = Reached
      BY <1>1, <2>1, <3>3 DEF Reached
    <3>5. QED
      BY <1>3, <1>4, <3>1, <3>4 DEF Consumed
  <2>2. CASE ~body.text
    <3>1. Len(binary') = Len(binary) + n /\ encoded' = encoded
      BY <1>2, <1>4, <1>5, <2>2, ConcatProperties
    <3>2. Consumed = received - Len(binary) /\ Consumed' = received' - Len(binary')
      BY <1>1, <2>2 DEF Consumed, Reached
    <3>3. QED
      BY <1>1, <1>3, <1>4, <3>1, <3>2
  <2>3. QED
    BY <2>1, <2>2
<1>7. StepsLeft = 3
  BY <1>1 DEF StepsLeft
<1>8. /\ StepsLeft' \in Nat
      /\ n = 0 => StepsLeft' = 2
      /\ n # 0 => StepsLeft' <= 6
  BY <1>1 DEF StepsLeft
<1>9. Rank' = 5 * (Length(body) - (received + n)) + Len(encoded')
                + 2 * (body.eof - Consumed) + Len(frames) + StepsLeft'
  BY <1>1, <1>6, RankAfter
<1>10. Rank = 5 * (Length(body) - received) + Len(encoded)
                + 2 * (body.eof - Consumed) + Len(frames) + 3
  BY <1>7 DEF Rank
<1>11. ASSUME NEW l \in Nat, NEW r \in Nat, NEW e \in Nat, NEW o \in Nat, NEW c \in Nat,
              NEW f \in Nat, NEW d \in Nat, NEW t \in Nat, d <= e + n,
              n = 0 => t = 2, n # 0 => t <= 6
       PROVE  5 * (l - (r + n)) + d + 2 * (o - c) + f + t
                < 5 * (l - r) + e + 2 * (o - c) + f + 3
  BY <1>4, <1>11
<1>12. QED
  BY <1>3, <1>6, <1>8, <1>9, <1>10, <1>11

LEMMA DecodeBlockNearer ==
  ASSUME IInv, DecodeBlock
  PROVE  Rank' < Rank
<1>1. /\ pc = "decode" /\ Len(encoded) >= 4
      /\ UNCHANGED <<body, received, frames>>
  BY DEF DecodeBlock, config
<1>2. CASE ~Decodable(BlockEnd)
  <2>1. Fail("decode") /\ UNCHANGED <<binary, encoded>>
    BY <1>2 DEF DecodeBlock
  <2>2. Len(frames') \in Nat /\ Len(frames') <= Len(frames)
    BY <1>1, RankParts
  <2>3. QED
    BY <1>1, <2>1, <2>2, FailsNearer
<1>3. CASE Decodable(BlockEnd)
  <2>1. Consumed' = Consumed /\ Len(encoded') = Len(encoded) - BlockEnd
    BY <1>3, DecodeBlockStep
  <2>2. pc' \in {"decode", "consume"}
    BY <1>3 DEF DecodeBlock
  <2>3. StepsLeft = 6 /\ StepsLeft' \in Nat /\ StepsLeft' <= 6
    BY <1>1, <2>2 DEF StepsLeft
  <2>4. BlockEnd \in Nat /\ BlockEnd > 0
    <3>1. encoded \in Seq(Nat)
      BY DEF IInv, TypeInv
    <3>2. QED
      BY <1>1, <3>1, BlockEndIs
  <2>5. Rank' = 5 * (Length(body) - received) + (Len(encoded) - BlockEnd)
                  + 2 * (body.eof - Consumed) + Len(frames) + StepsLeft'
    BY <1>1, <2>1, RankAfter
  <2>6. Rank = 5 * (Length(body) - received) + Len(encoded)
                 + 2 * (body.eof - Consumed) + Len(frames) + 6
    BY <2>3 DEF Rank
  <2>7. ASSUME NEW l \in Nat, NEW r \in Nat, NEW e \in Nat, NEW o \in Nat,
               NEW c \in Nat, NEW f \in Nat, NEW d \in Nat, NEW t \in Nat,
               d > 0, t <= 6
        PROVE  5 * (l - r) + (e - d) + 2 * (o - c) + f + t
                 < 5 * (l - r) + e + 2 * (o - c) + f + 6
    BY <2>7
  <2>8. QED
    BY <2>3, <2>4, <2>5, <2>6, <2>7, RankParts
<1>4. QED
  BY <1>2, <1>3

LEMMA TakeFrameNearer ==
  ASSUME IInv, TakeFrame
  PROVE  Rank' < Rank
<1>1. /\ pc' = pc /\ readErr' = readErr
      /\ UNCHANGED <<body, received, encoded>>
  BY DEF TakeFrame, config
<1>2. Consumed' \in Nat /\ Consumed' > Consumed /\ Len(frames') = Len(frames) + 1
  BY TakeFrameStep
<1>3. StepsLeft' = StepsLeft
  BY <1>1 DEF StepsLeft
<1>4. Rank' = 5 * (Length(body) - received) + Len(encoded)
                + 2 * (body.eof - Consumed') + (Len(frames) + 1) + StepsLeft
  BY <1>1, <1>2, <1>3, RankAfter
<1>5. ASSUME NEW l \in Nat, NEW r \in Nat, NEW e \in Nat, NEW o \in Nat,
             NEW c \in Nat, NEW d \in Nat, NEW f \in Nat, NEW t \in Nat, d > c
      PROVE  5 * (l - r) + e + 2 * (o - d) + (f + 1) + t
               < 5 * (l - r) + e + 2 * (o - c) + f + t
  BY <1>5
<1>6. QED
  BY <1>2, <1>4, <1>5, RankParts DEF Rank

LEMMA WorkNearer ==
  ASSUME IInv, Work
  PROVE  Rank' < Rank
<1>1. /\ Len(frames) \in Nat /\ frames \in Seq(Frames)
      /\ readErr \in {"none", "eof", "failed"}
  BY RankParts DEF IInv, TypeInv
<1>2. frames # << >> => Len(Tail(frames)) \in Nat /\ Len(Tail(frames)) + 1 = Len(frames)
  BY <1>1
<1>3. ASSUME NEW why \in {"request", "response"}, NoResponse(why)
      PROVE  Rank' < Rank
  <2>1. /\ Fail(why) /\ pc # "done" /\ frames' = frames
        /\ UNCHANGED <<body, received, encoded, binary>>
    BY <1>3 DEF NoResponse, config
  <2>2. QED
    BY <1>1, <2>1, FailsNearer
<1>4. CASE Response
  <2>1. /\ pc = "start" /\ pc' = "read" /\ frames' = frames
        /\ UNCHANGED <<body, received, encoded, binary>>
    BY <1>4 DEF Response, config
  <2>2. StepsLeft = 4 /\ StepsLeft' = 3
    BY <2>1 DEF StepsLeft
  <2>3. QED
    BY <1>1, <2>1, <2>2, MovesNearer
<1>5. CASE DecodeEnds
  <2>1. /\ pc = "decode" /\ pc' = "consume" /\ frames' = frames
        /\ UNCHANGED <<body, received, encoded, binary>>
    BY <1>5 DEF DecodeEnds, config
  <2>2. StepsLeft = 6 /\ StepsLeft' = 5
    BY <2>1 DEF StepsLeft
  <2>3. QED
    BY <1>1, <2>1, <2>2, MovesNearer
<1>6. CASE RefuseFrame
  <2>1. /\ Fail("decode") /\ pc # "done" /\ frames' = frames
        /\ UNCHANGED <<body, received, encoded, binary>>
    BY <1>6 DEF RefuseFrame, config
  <2>2. QED
    BY <1>1, <2>1, FailsNearer
<1>7. CASE ConsumeEnds
  <2>1. /\ pc = "consume" /\ pc' = "judge" /\ frames' = frames /\ readErr' = readErr
        /\ UNCHANGED <<body, received, encoded, binary>>
    BY <1>7 DEF ConsumeEnds, config
  <2>2. StepsLeft = 5 /\ StepsLeft' \in Nat /\ StepsLeft' <= 4
    BY <2>1 DEF StepsLeft
  <2>3. QED
    BY <1>1, <2>1, <2>2, MovesNearer
<1>8. CASE JudgeTrailer
  <2>1. /\ pc' = pc /\ readErr' = readErr
        /\ frames # << >> /\ frames' = Tail(frames)
        /\ UNCHANGED <<body, received, encoded, binary>>
    BY <1>8 DEF JudgeTrailer, config
  <2>2. StepsLeft' = StepsLeft
    BY <2>1 DEF StepsLeft
  <2>3. QED
    BY <1>1, <1>2, <2>1, <2>2, RankParts, MovesNearer
<1>9. CASE JudgeData
  <2>1. /\ pc = "judge" /\ pc' \in {"judge", "done"} /\ readErr' = readErr
        /\ frames # << >> /\ frames' = Tail(frames)
        /\ UNCHANGED <<body, received, encoded, binary>>
    BY <1>9 DEF JudgeData, Fail, config
  <2>2. StepsLeft' \in Nat /\ StepsLeft' <= StepsLeft
    BY <1>1, <2>1 DEF StepsLeft
  <2>3. QED
    BY <1>1, <1>2, <2>1, <2>2, RankParts, MovesNearer
<1>10. CASE ReadOn
  <2>1. /\ pc = "judge" /\ pc' \in {"read", "done"} /\ frames' = frames
        /\ readErr' = readErr /\ readErr # "eof"
        /\ readErr = "failed" => pc' = "done"
        /\ UNCHANGED <<body, received, encoded, binary>>
    BY <1>10 DEF ReadOn, AtEof, Fail, config
  <2>2. StepsLeft \in Nat /\ StepsLeft' \in Nat /\ StepsLeft' < StepsLeft
    BY <1>1, <2>1 DEF StepsLeft
  <2>3. QED
    BY <1>1, <2>1, <2>2, MovesNearer
<1>11. CASE Finish
  <2>1. /\ pc = "judge" /\ pc' = "done" /\ frames' = frames
        /\ UNCHANGED <<body, received, encoded, binary>>
    BY <1>11 DEF Finish, Fail, config
  <2>2. StepsLeft \in Nat /\ StepsLeft' = 0 /\ StepsLeft > 0
    BY <2>1 DEF StepsLeft
  <2>3. QED
    BY <1>1, <2>1, <2>2, MovesNearer
<1>12. QED
  BY <1>3, <1>4, <1>5, <1>6, <1>7, <1>8, <1>9, <1>10, <1>11,
     ReadNearer, DecodeBlockNearer, TakeFrameNearer DEF Work

RankInv == Rank \in Nat
Nearer  == RankInv /\ RankInv' /\ Rank' < Rank

(* The safety half of Ends: a stream gets its verdict within
   5 * Length + 2 * eof + 4 turns.  Each turn of runStream's loop and of the
   loops of the two decoders (main.go, 276-330; protocol.go, 39-57 and
   101-119) reads, decodes, takes or judges something, or ends: no cut of
   the network, no padding and no frame makes a loop go round for nothing.
   That some turn is always possible is left to TLC. *)
THEOREM EveryTurnCounts == Spec => [][Nearer]_vars
<1>1. IInv => RankInv
  BY RankIsNat DEF RankInv
<1>2. IInv /\ RankInv /\ RankInv' /\ [Next]_vars => [Nearer]_vars
  <2> SUFFICES ASSUME IInv, RankInv, RankInv', Next, ~UNCHANGED vars
               PROVE  Nearer
    OBVIOUS
  <2>1. Work
    BY DEF Next, Over
  <2>2. QED
    BY <2>1, WorkNearer DEF Nearer
<1>3. QED
  BY AlwaysIInv, <1>1, <1>2, PTL DEF Spec

=============================================================================
