-------------------------- MODULE RcBenchmarkProofs --------------------------
(***************************************************************************)
(* The RC benchmark, for every list of scenarios, every staircase, every   *)
(* SLO and policy, every number of repeats and attempts, whatever the runs *)
(* measure and whatever becomes of the machine and of HEAD meanwhile.      *)
(*                                                                         *)
(* The argument goes along the files.  While a repeat climbs, its result   *)
(* files are exactly those of the steps climbed (FilesInv), so a report    *)
(* made from them has those rows, and a capacity made from such a report   *)
(* is sound: it lists each step once and in order, calls none sustainable  *)
(* that lies above a failure and has a boundary if any step failed         *)
(* (EvaluateCapacityFacts).  What is left to show is that the capacity a   *)
(* repeat keeps is of that kind although run-ab.sh may have evaluated a    *)
(* stale report on the way (CloseInv).                                     *)
(*                                                                         *)
(* The images need an argument of their own (SourceInv): those of an       *)
(* attempt are followed from the commit that its manifest names, which     *)
(* HEAD leaves for a commit that nothing names yet or, counted by undone,  *)
(* for one that was there before.                                          *)
(***************************************************************************)
EXTENDS RcBenchmark, FiniteSetTheorems, SequenceTheorems, WellFoundedInduction,
        TLAPS

(* Every non-empty set of natural numbers has a least element. *)
LEMMA LeastElement ==
  ASSUME NEW C \in SUBSET Nat, C # {}
  PROVE  \E c \in C : \A d \in C : c <= d
<1> DEFINE R == {ss \in Nat \X Nat : ss[1] < ss[2]}
<1>1. IsWellFoundedOn(R, Nat)
  BY NatLessThanWellFounded DEF OpToRel
<1>2. \A c, d \in Nat : d < c => <<d, c>> \in R
  OBVIOUS
<1> HIDE DEF R
<1>3. PICK c \in C : \A d \in C : ~ (<<d, c>> \in R)
  BY <1>1, WFMin
<1>4. ASSUME NEW d \in C
      PROVE  c <= d
  <2>1. c \in Nat /\ d \in Nat
    OBVIOUS
  <2>2. ~ (<<d, c>> \in R)
    BY <1>3
  <2>3. ~ (d < c)
    BY <2>1, <2>2, <1>2
  <2>4. QED
    BY <2>1, <2>3
<1>5. QED
  BY <1>4

(* A sequence, whatever it holds. *)
IsSequence(s) == s \in Seq(Range(s))

LEMMA SequenceFacts ==
  ASSUME NEW s, IsSequence(s)
  PROVE  /\ Len(s) \in Nat /\ DOMAIN s = 1..Len(s)
         /\ \A i \in 1..Len(s) : s[i] \in Range(s)
  BY DEF IsSequence, Range

LEMMA SequenceOf ==
  ASSUME NEW S, NEW s \in Seq(S)
  PROVE  IsSequence(s)
  BY DEF IsSequence, Range

LEMMA AppendIsSequence ==
  ASSUME NEW s, IsSequence(s), NEW x
  PROVE  /\ IsSequence(Append(s, x))
         /\ Len(Append(s, x)) = Len(s) + 1
         /\ Append(s, x)[Len(s) + 1] = x
         /\ \A i \in 1..Len(s) : Append(s, x)[i] = s[i]
<1> DEFINE S == Range(s) \union {x}
<1>1. s \in Seq(S) /\ x \in S
  <2>1. s \in Seq(Range(s)) /\ Range(s) \subseteq S
    BY DEF IsSequence
  <2>2. QED
    BY <2>1, SeqMonotonic
<1> HIDE DEF S
<1>2. /\ Append(s, x) \in Seq(S)
      /\ Len(Append(s, x)) = Len(s) + 1
      /\ Append(s, x)[Len(s) + 1] = x
      /\ \A i \in 1..Len(s) : Append(s, x)[i] = s[i]
  BY <1>1, AppendProperties
<1>3. IsSequence(Append(s, x))
  BY <1>2, SequenceOf
<1>4. QED
  BY <1>2, <1>3

LEMMA ConcatIsSequence ==
  ASSUME NEW s, IsSequence(s), NEW t, IsSequence(t)
  PROVE  /\ IsSequence(s \o t)
         /\ Len(s \o t) = Len(s) + Len(t)
         /\ \A i \in 1..Len(s) : (s \o t)[i] = s[i]
         /\ \A i \in 1..Len(t) : (s \o t)[Len(s) + i] = t[i]
<1> DEFINE S == Range(s) \union Range(t)
<1>1. s \in Seq(S) /\ t \in Seq(S)
  <2>1. s \in Seq(Range(s)) /\ Range(s) \subseteq S
    BY DEF IsSequence
  <2>2. t \in Seq(Range(t)) /\ Range(t) \subseteq S
    BY DEF IsSequence
  <2>3. QED
    BY <2>1, <2>2, SeqMonotonic
<1> HIDE DEF S
<1>2. /\ s \o t \in Seq(S)
      /\ Len(s \o t) = Len(s) + Len(t)
      /\ \A i \in 1..Len(s) : (s \o t)[i] = s[i]
      /\ \A i \in 1..Len(t) : (s \o t)[Len(s) + i] = t[i]
  BY <1>1, ConcatProperties
<1>3. IsSequence(s \o t)
  BY <1>2, SequenceOf
<1>4. QED
  BY <1>2, <1>3

LEMMA MinFacts ==
  ASSUME NEW S \in SUBSET Nat, S # {}
  PROVE  Min(S) \in S /\ \A x \in S : Min(S) <= x
<1>1. \E x \in S : \A y \in S : x <= y
  BY LeastElement
<1>2. QED
  BY <1>1 DEF Min

-----------------------------------------------------------------------------
(* The operators of report.py and capacity.py.                             *)

(* A finite set of numbers can be put in order, in one way as far as the
   proofs below care: each element has a rank. *)
LEMMA AscendingFacts ==
  ASSUME NEW S \in SUBSET Nat, IsFiniteSet(S)
  PROVE  /\ Cardinality(S) \in Nat
         /\ Ascending(S) \in [1..Cardinality(S) -> S]
         /\ \A i, j \in 1..Cardinality(S) :
              i < j => Ascending(S)[i] < Ascending(S)[j]
         /\ \A x \in S : \E i \in 1..Cardinality(S) : Ascending(S)[i] = x
<1> DEFINE n == Cardinality(S)
           upto(x) == {y \in S : y <= x}
           rank == [x \in S |-> Cardinality(upto(x))]
           InOrder(s) == \A i, j \in 1..n : i < j => s[i] < s[j]
<1>1. n \in Nat /\ IsFiniteSet(1..n) /\ Cardinality(1..n) = n
  <2>1. n \in Nat
    BY FS_CardinalityType
  <2>2. IsFiniteSet(1..n) /\ Cardinality(1..n) = IF 1 > n THEN 0 ELSE n - 1 + 1
    BY <2>1, FS_Interval
  <2>3. QED
    BY <2>1, <2>2
<1>2. ASSUME NEW x \in S
      PROVE  /\ IsFiniteSet(upto(x))
             /\ rank[x] \in 1..n
  <2>1. IsFiniteSet(upto(x)) /\ Cardinality(upto(x)) <= n
    <3>1. upto(x) \in SUBSET S
      OBVIOUS
    <3>2. QED
      BY <3>1, FS_Subset
  <2>2. Cardinality(upto(x)) \in Nat
    BY <2>1, FS_CardinalityType
  <2>3. x \in upto(x)
    OBVIOUS
  <2>4. Cardinality(upto(x)) # 0
    BY <2>1, <2>3, FS_EmptySet
  <2>5. QED
    BY <1>1, <2>1, <2>2, <2>4
<1>3. ASSUME NEW x \in S, NEW y \in S, x < y
      PROVE  rank[x] < rank[y]
  <2>0. x \in Nat /\ y \in Nat /\ \A z \in S : z \in Nat
    OBVIOUS
  <2>1. upto(x) \in SUBSET upto(y) /\ y \in upto(y) /\ y \notin upto(x)
    <3>1. ASSUME NEW z \in upto(x)
          PROVE  z \in upto(y)
      <4>1. z \in S /\ z \in Nat /\ z <= x
        BY <2>0
      <4>2. z <= y
        BY <1>3, <2>0, <4>1
      <4>3. QED
        BY <4>1, <4>2
    <3>2. y \in upto(y) /\ y \notin upto(x)
      BY <1>3, <2>0
    <3>3. QED
      BY <3>1, <3>2
  <2>2. IsFiniteSet(upto(y)) /\ upto(x) # upto(y)
    BY <1>2, <2>1
  <2>3. /\ Cardinality(upto(x)) <= Cardinality(upto(y))
        /\ Cardinality(upto(x)) # Cardinality(upto(y))
    BY <2>1, <2>2, FS_Subset
  <2>4. rank[x] \in 1..n /\ rank[y] \in 1..n
    BY <1>2
  <2>5. /\ rank[x] = Cardinality(upto(x))
        /\ rank[y] = Cardinality(upto(y))
    OBVIOUS
  <2> HIDE DEF rank, upto
  <2>6. QED
    BY <1>1, <2>3, <2>4, <2>5
<1> HIDE DEF rank
<1>4. rank \in [S -> 1..n]
  BY <1>2 DEF rank
<1>5. rank \in Surjection(S, 1..n)
  <2>1. ASSUME NEW x \in S, NEW y \in S, rank[x] = rank[y]
        PROVE  x = y
    <3>1. rank[x] \in 1..n /\ rank[y] \in 1..n /\ x \in Nat /\ y \in Nat
      BY <1>4
    <3>2. ~(x < y) /\ ~(y < x)
      BY <1>1, <1>3, <2>1, <3>1
    <3>3. QED
      BY <3>1, <3>2
  <2>2. rank \in Injection(S, 1..n)
    BY <1>4, <2>1 DEF Injection, IsInjective
  <2>3. QED
    BY <1>1, <2>2, FS_Injection
<1> DEFINE s == [i \in 1..n |-> CHOOSE x \in S : rank[x] = i]
<1>6. ASSUME NEW i \in 1..n
      PROVE  s[i] \in S /\ rank[s[i]] = i
  <2>1. \E x \in S : rank[x] = i
    BY <1>5 DEF Surjection
  <2>2. QED
    BY <2>1
<1> HIDE DEF s
<1>7. s \in [1..n -> S]
  BY <1>6 DEF s
<1>8. InOrder(s)
  <2>1. ASSUME NEW i \in 1..n, NEW j \in 1..n, i < j
        PROVE  s[i] < s[j]
    <3>1. /\ s[i] \in S /\ s[j] \in S
          /\ rank[s[i]] = i /\ rank[s[j]] = j
      BY <1>6
    <3>2. s[i] \in Nat /\ s[j] \in Nat
      BY <3>1
    <3>3. ~(s[j] < s[i])
      <4>1. s[j] < s[i] => rank[s[j]] < rank[s[i]]
        BY <1>3, <3>1
      <4>2. QED
        BY <1>1, <2>1, <3>1, <4>1
    <3>4. s[j] # s[i]
      BY <1>1, <2>1, <3>1
    <3>5. QED
      BY <3>2, <3>3, <3>4
  <2>2. QED
    BY <2>1
<1> DEFINE a == Ascending(S)
<1>9. a \in [1..n -> S] /\ InOrder(a)
  <2>1. \E f \in [1..n -> S] : \A i, j \in DOMAIN f : i < j => f[i] < f[j]
    BY <1>7, <1>8
  <2> DEFINE f == CHOOSE f \in [1..n -> S] :
                    \A i, j \in DOMAIN f : i < j => f[i] < f[j]
  <2>2. /\ f \in [1..n -> S]
        /\ \A i, j \in DOMAIN f : i < j => f[i] < f[j]
    BY <2>1
  <2>3. a = f
    BY DEF Ascending
  <2> HIDE DEF f, a
  <2>4. DOMAIN a = 1..n
    BY <2>2, <2>3
  <2>5. QED
    BY <2>2, <2>3, <2>4
<1> HIDE DEF a
<1>10. a \in Surjection(1..n, S)
  <2>1. ASSUME NEW i \in 1..n, NEW j \in 1..n, a[i] = a[j]
        PROVE  i = j
    <3>1. a[i] \in Nat /\ a[j] \in Nat
      BY <1>9
    <3>2. ~(i < j) /\ ~(j < i)
      BY <1>9, <2>1, <3>1
    <3>3. QED
      BY <1>1, <3>2
  <2>2. a \in Injection(1..n, S)
    BY <1>9, <2>1 DEF Injection, IsInjective
  <2>3. QED
    BY <1>1, <2>2, FS_Injection
<1>11. \A x \in S : \E i \in 1..n : a[i] = x
  BY <1>10 DEF Surjection
<1>12. QED
  BY <1>1, <1>9, <1>11 DEF a

(* A function on 1..n is a sequence of length n. *)
LEMMA FunctionIsSequence ==
  ASSUME NEW S, NEW n \in Nat, NEW f \in [1..n -> S]
  PROVE  f \in Seq(S) /\ Len(f) = n /\ IsSequence(f)
<1>1. f \in Seq(S) /\ Len(f) = n
  OBVIOUS
<1>2. QED
  BY <1>1, SequenceOf

(* A sequence has finitely many elements. *)
LEMMA RangeIsFinite ==
  ASSUME NEW s, IsSequence(s)
  PROVE  IsFiniteSet(Range(s))
<1>1. Len(s) \in Nat /\ DOMAIN s = 1..Len(s)
  BY SequenceFacts
<1>2. IsFiniteSet(1..Len(s))
  BY <1>1, FS_Interval
<1>3. s \in [1..Len(s) -> Range(s)]
  BY <1>1 DEF IsSequence
<1>4. s \in Surjection(1..Len(s), Range(s))
  BY <1>1, <1>3 DEF Surjection, Range
<1>5. QED
  BY <1>2, <1>4, FS_Surjection

(* What classify_capacity says of one architecture whose steps are listed
   with growing numbers of streams: it calls nothing sustainable that lies
   above a failure, and a failure leaves a boundary. *)
CapacitySound(c) ==
  /\ c.max_sustainable \in Nat
  /\ \A p \in Range(c.points) : p.streams \in Nat
  /\ \A p \in Range(c.points) : p.streams <= c.max_sustainable => p.pass
  /\ (\E p \in Range(c.points) : ~p.pass) => c.first_failed # NoStep

LEMMA ArchitectureCapacityFacts ==
  ASSUME NEW points, IsSequence(points),
         \A i \in 1..Len(points) : points[i].streams \in Nat \ {0},
         \A i, j \in 1..Len(points) : i < j => points[i].streams < points[j].streams
  PROVE  /\ ArchitectureCapacity(points).points = points
         /\ CapacitySound(ArchitectureCapacity(points))
<1> DEFINE n == Len(points)
           failed == {i \in 1..n : ~points[i].pass}
           run == IF failed = {} THEN n ELSE Min(failed) - 1
           c == ArchitectureCapacity(points)
<1>1. n \in Nat /\ DOMAIN points = 1..n
  BY SequenceFacts
<1>2. failed # {} => Min(failed) \in failed /\ \A i \in failed : Min(failed) <= i
  <2>1. failed \in SUBSET Nat
    BY <1>1
  <2>2. QED
    BY <2>1, MinFacts
<1>3. run \in 0..n /\ \A i \in 1..run : i \notin failed
  <2>1. CASE failed = {}
    BY <1>1, <2>1
  <2>2. CASE failed # {}
    <3>1. Min(failed) \in 1..n /\ \A i \in failed : Min(failed) <= i
      BY <1>2, <2>2
    <3>2. run = Min(failed) - 1
      BY <2>2
    <3> HIDE DEF run, failed
    <3>3. run \in 0..n
      BY <1>1, <3>1, <3>2
    <3>4. ASSUME NEW i \in 1..run
          PROVE  i \notin failed
      <4>1. i \in Nat /\ i < Min(failed)
        BY <1>1, <3>1, <3>2, <3>3
      <4>2. i \in failed => Min(failed) <= i
        BY <3>1
      <4>3. QED
        BY <1>1, <3>1, <4>1, <4>2
    <3>5. QED
      BY <3>3, <3>4
  <2>3. QED
    BY <2>1, <2>2
<1>4. /\ c.points = points
      /\ c.max_sustainable = IF run = 0 THEN 0 ELSE points[run].streams
      /\ c.first_failed = IF failed = {} THEN NoStep ELSE points[Min(failed)].streams
  BY <1>1 DEF ArchitectureCapacity
<1> HIDE DEF c, run
<1>5. c.max_sustainable \in Nat
  BY <1>1, <1>3, <1>4
<1>6. ASSUME NEW p \in Range(points), p.streams <= c.max_sustainable
      PROVE  p.pass
  <2>1. PICK i \in 1..n : p = points[i]
    BY <1>1 DEF Range
  <2>2. p.streams \in Nat \ {0}
    BY <2>1
  <2>3. run # 0 /\ c.max_sustainable = points[run].streams
    BY <1>4, <1>6, <2>2
  <2>4. run \in 1..n
    BY <1>1, <1>3, <2>3
  <2>5. ~(run < i)
    <3>1. run < i => points[run].streams < points[i].streams
      BY <2>1, <2>4
    <3>2. points[run].streams \in Nat
      BY <2>4
    <3>3. points[i].streams <= points[run].streams
      BY <1>6, <2>1, <2>3
    <3>4. points[i].streams \in Nat
      BY <2>1
    <3>5. QED
      BY <3>1, <3>2, <3>3, <3>4
  <2>6. i \in 1..run
    BY <1>1, <2>1, <2>4, <2>5
  <2>7. i \notin failed
    BY <1>3, <2>6
  <2>8. QED
    BY <2>1, <2>7
<1>7. (\E p \in Range(points) : ~p.pass) => c.first_failed # NoStep
  <2>1. ASSUME NEW p \in Range(points), ~p.pass
        PROVE  c.first_failed # NoStep
    <3>1. failed # {}
      BY <1>1, <2>1 DEF Range
    <3>2. Min(failed) \in 1..n
      BY <1>2, <3>1
    <3>3. c.first_failed = points[Min(failed)].streams
      BY <1>4, <3>1
    <3>4. QED
      BY <3>2, <3>3 DEF NoStep
  <2>2. QED
    BY <2>1
<1>8. CapacitySound(c)
  <2>1. \A p \in Range(points) : p.streams \in Nat
    BY <1>1 DEF Range
  <2>2. QED
    BY <1>4, <1>5, <1>6, <1>7, <2>1 DEF CapacitySound
<1>9. QED
  BY <1>4, <1>8 DEF c

(* What capacity.py says of a report: for each architecture a point for
   each row, and a sound capacity. *)
LEMMA EvaluateCapacityFacts ==
  ASSUME NEW rows, NEW slo, DOMAIN rows \in SUBSET (Nat \ {0}),
         IsFiniteSet(DOMAIN rows), NEW arch \in Archs
  PROVE  LET c == EvaluateCapacity(rows, slo)[arch]
         IN  /\ {p.streams : p \in Range(c.points)} = DOMAIN rows
             /\ CapacitySound(c)
<1> DEFINE D == DOMAIN rows
           n == Cardinality(D)
           loads == Ascending(D)
           points == [i \in DOMAIN loads |-> Point(rows[loads[i]], loads[i], arch, slo)]
           c == EvaluateCapacity(rows, slo)[arch]
<1>1. /\ n \in Nat
      /\ loads \in [1..n -> D]
      /\ \A i, j \in 1..n : i < j => loads[i] < loads[j]
      /\ \A x \in D : \E i \in 1..n : loads[i] = x
  <2>1. D \in SUBSET Nat
    OBVIOUS
  <2>2. QED
    BY <2>1, AscendingFacts
<1>2. c = ArchitectureCapacity(points)
  BY DEF EvaluateCapacity
<1> HIDE DEF D, n, loads, c
<1>3. /\ DOMAIN points = 1..n
      /\ \A i \in 1..n : points[i].streams = loads[i]
  <2>1. DOMAIN loads = 1..n
    BY <1>1
  <2>2. ASSUME NEW i \in 1..n
        PROVE  points[i].streams = loads[i]
    BY <2>1 DEF Point
  <2>3. QED
    BY <2>1, <2>2
<1>4. points \in [1..n -> Range(points)]
  <2>1. DOMAIN loads = 1..n
    BY <1>1
  <2>2. QED
    BY <2>1 DEF Range
<1> HIDE DEF points
<1>5. IsSequence(points) /\ Len(points) = n
  BY <1>1, <1>4, FunctionIsSequence
<1>6. D \subseteq Nat \ {0}
  BY DEF D
<1>7. /\ c.points = points
      /\ CapacitySound(c)
  <2>1. \A i \in 1..n : points[i].streams \in Nat \ {0}
    BY <1>1, <1>3, <1>6
  <2>2. \A i, j \in 1..n : i < j => points[i].streams < points[j].streams
    BY <1>1, <1>3
  <2>3. QED
    BY <1>2, <1>5, <2>1, <2>2, ArchitectureCapacityFacts
<1>8. {p.streams : p \in Range(points)} = D
  <2>1. ASSUME NEW p \in Range(points)
        PROVE  p.streams \in D
    BY <1>1, <1>3, <2>1 DEF Range
  <2>2. ASSUME NEW x \in D
        PROVE  \E p \in Range(points) : p.streams = x
    <3>1. PICK i \in 1..n : loads[i] = x
      BY <1>1
    <3>2. points[i] \in Range(points) /\ points[i].streams = x
      BY <1>3, <3>1 DEF Range
    <3>3. QED
      BY <3>2
  <2>3. QED
    BY <2>1, <2>2
<1>9. QED
  BY <1>7, <1>8 DEF c, D

-----------------------------------------------------------------------------
(* The inductive invariant.                                                *)

(* The steps of the staircase that the repeat has result files of. *)
Climbed == IF pc = "measure" THEN rung - 1 ELSE rung

StepsUpTo(n) == {steps[k] : k \in 1..n}

TypeInv ==
  /\ pc \in {"preflight", "attempt", "host", "measure", "report", "close", "decide",
             "check", "aggregate", "done", "failed"}
  /\ scenario \in 1..Len(Scenarios)
  /\ attempt \in Nat
  /\ steps \in Seq(Nat) /\ StepsValid(steps, Scenarios[scenario].ceiling)
  /\ rung \in 1..Len(steps)
  /\ pc \notin {"measure", "report", "close"} => rung = 1
  /\ IsSequence(files) /\ IsSequence(repeats) /\ IsSequence(selected)

FilesInv ==
  pc \in {"measure", "report", "close"} => LoadsOf(files) = StepsUpTo(Climbed)

(* The staircase that run-ab.sh ended was at its top or had just lost both
   architectures, as far as its last readable report says. *)
CloseInv ==
  pc = "close" =>
    /\ Readable => capacity = EvaluateCapacity(Report(files), SLO)
    /\ rung = Len(steps) \/ BothFailedAt(capacity, steps[rung])

RepeatsInv ==
  \A i \in DOMAIN repeats :
    /\ repeats[i].measured /\ repeats[i].examined
    /\ \A arch \in Archs : CapacitySound(repeats[i].capacity[arch])

(* A decision is that of the repeats beside it. *)
DecisionInv ==
  /\ decision # Nothing => pc \in {"check", "attempt"}
  /\ ReferenceSustained

SelectedInv ==
  /\ pc \in {"aggregate", "done"} => Len(selected) = Len(Scenarios)
  /\ pc \notin {"aggregate", "done", "failed"} => Len(selected) = scenario - 1

IInv ==
  /\ TypeInv /\ FilesInv /\ CloseInv /\ RepeatsInv
  /\ StopLosesNothing /\ ReportWhole
  /\ DecisionInv /\ SelectedInv

-----------------------------------------------------------------------------
(* Staircases.                                                             *)

(* What is_valid_steps asks of neighbours holds of any two steps. *)
LEMMA StepsIncrease ==
  ASSUME NEW s \in Seq(Nat), NEW ceiling, StepsValid(s, ceiling)
  PROVE  /\ Len(s) \in Nat \ {0} /\ DOMAIN s = 1..Len(s)
         /\ \A i \in 1..Len(s) : s[i] \in Nat \ {0}
         /\ \A i, j \in 1..Len(s) : i < j => s[i] < s[j]
<1>1. /\ Len(s) \in Nat \ {0} /\ DOMAIN s = 1..Len(s)
      /\ \A i \in 1..Len(s) : s[i] \in Nat /\ s[i] > 0
      /\ \A i \in 1..(Len(s) - 1) : s[i] < s[i + 1]
  BY DEF StepsValid
<1>2. ASSUME NEW i \in 1..Len(s)
      PROVE  \A j \in 1..Len(s) : i < j => s[i] < s[j]
  <2> DEFINE Bad == {j \in 1..Len(s) : i < j /\ ~(s[i] < s[j])}
  <2>1. SUFFICES ASSUME Bad # {}
                 PROVE  FALSE
    OBVIOUS
  <2>2. PICK j \in Bad : \A k \in Bad : j <= k
    <3>1. Bad \in SUBSET Nat
      BY <1>1
    <3>2. QED
      BY <2>1, <3>1, LeastElement
  <2>3. j \in 1..Len(s) /\ i < j /\ ~(s[i] < s[j])
    BY <2>2
  <2>4. j - 1 \in 1..(Len(s) - 1) /\ j - 1 >= i /\ (j - 1) + 1 = j
    BY <1>1, <2>3
  <2>5. s[j - 1] < s[j] /\ s[j - 1] \in Nat /\ s[i] \in Nat /\ s[j] \in Nat
    BY <1>1, <2>3, <2>4
  <2>6. s[i] <= s[j - 1]
    <3>1. CASE j - 1 = i
      BY <2>5, <3>1
    <3>2. CASE j - 1 # i
      <4>1. j - 1 \in 1..Len(s) /\ i < j - 1 /\ ~(j <= j - 1)
        BY <1>1, <2>3, <2>4, <3>2
      <4>2. j - 1 \notin Bad
        BY <2>2, <4>1
      <4>3. s[i] < s[j - 1]
        BY <4>1, <4>2
      <4>4. QED
        BY <2>5, <4>3
    <3>3. QED
      BY <3>1, <3>2
  <2> HIDE DEF Bad
  <2>7. QED
    BY <2>3, <2>5, <2>6
<1>3. QED
  BY <1>1, <1>2

(* The steps up to one are the steps that are not higher. *)
LEMMA StepsUpToFacts ==
  ASSUME TypeInv, NEW n \in 0..Len(steps)
  PROVE  /\ StepsUpTo(n) \in SUBSET (Nat \ {0}) /\ IsFiniteSet(StepsUpTo(n))
         /\ n # 0 => StepsUpTo(n)
                       = {steps[k] : k \in {j \in DOMAIN steps : steps[j] <= steps[n]}}
<1>1. /\ Len(steps) \in Nat \ {0} /\ DOMAIN steps = 1..Len(steps)
      /\ \A i \in 1..Len(steps) : steps[i] \in Nat \ {0}
      /\ \A i, j \in 1..Len(steps) : i < j => steps[i] < steps[j]
  BY StepsIncrease DEF TypeInv
<1>2. n \in Nat /\ \A k \in 1..n : k \in 1..Len(steps)
  BY <1>1
<1>3. StepsUpTo(n) \in SUBSET (Nat \ {0})
  BY <1>1, <1>2 DEF StepsUpTo
<1>4. IsFiniteSet(StepsUpTo(n))
  <2> DEFINE s == [k \in 1..n |-> steps[k]]
  <2>1. s \in Surjection(1..n, StepsUpTo(n))
    BY DEF Surjection, StepsUpTo
  <2>2. IsFiniteSet(1..n)
    BY <1>2, FS_Interval
  <2>3. QED
    BY <2>1, <2>2, FS_Surjection
<1>5. ASSUME n # 0
      PROVE  StepsUpTo(n) = {steps[k] : k \in {j \in DOMAIN steps : steps[j] <= steps[n]}}
  <2>1. n \in 1..Len(steps) /\ steps[n] \in Nat
    BY <1>1, <1>5
  <2>2. ASSUME NEW k \in 1..n
        PROVE  k \in {j \in DOMAIN steps : steps[j] <= steps[n]}
    <3>1. k \in 1..Len(steps) /\ (k < n \/ k = n)
      BY <1>1, <1>2
    <3>2. steps[k] \in Nat /\ (k < n => steps[k] < steps[n])
      BY <1>1, <2>1, <3>1
    <3>3. steps[k] <= steps[n]
      BY <2>1, <3>1, <3>2
    <3>4. QED
      BY <1>1, <3>1, <3>3
  <2>3. ASSUME NEW k \in {j \in DOMAIN steps : steps[j] <= steps[n]}
        PROVE  k \in 1..n
    <3>1. k \in 1..Len(steps) /\ steps[k] <= steps[n] /\ steps[k] \in Nat
      BY <1>1
    <3>2. ~(n < k)
      <4>1. n < k => steps[n] < steps[k]
        BY <1>1, <2>1, <3>1
      <4>2. QED
        BY <2>1, <3>1, <4>1
    <3>3. QED
      BY <1>1, <1>2, <3>1, <3>2
  <2>4. QED
    BY <2>2, <2>3 DEF StepsUpTo
<1>6. QED
  BY <1>3, <1>4, <1>5

(* The result files of one step: runs of both architectures at its load. *)
FilesOfStep(gs, n) ==
  /\ IsSequence(gs)
  /\ \A i \in 1..Len(gs) : gs[i].load = n
  /\ \A arch \in Archs : \E i \in 1..Len(gs) : gs[i].arch = arch

(* They make one more row of the report. *)
LEMMA LoadsOfConcat ==
  ASSUME NEW fs, IsSequence(fs), NEW gs, NEW n, FilesOfStep(gs, n)
  PROVE  LoadsOf(fs \o gs) = LoadsOf(fs) \union {n}
<1> USE DEF FilesOfStep
<1> DEFINE both == fs \o gs
<1>1. /\ IsSequence(both) /\ Len(both) = Len(fs) + Len(gs)
      /\ \A i \in 1..Len(fs) : both[i] = fs[i]
      /\ \A i \in 1..Len(gs) : both[Len(fs) + i] = gs[i]
  BY ConcatIsSequence
<1>2. /\ Len(fs) \in Nat /\ DOMAIN fs = 1..Len(fs)
      /\ Len(gs) \in Nat /\ DOMAIN gs = 1..Len(gs)
      /\ DOMAIN both = 1..Len(both)
  BY <1>1, SequenceFacts
<1> HIDE DEF both
<1>3. ASSUME NEW i \in 1..Len(both)
      PROVE  \/ i \in 1..Len(fs) /\ both[i] = fs[i]
             \/ both[i].load = n
  <2>1. CASE i <= Len(fs)
    BY <1>1, <1>2, <2>1
  <2>2. CASE ~(i <= Len(fs))
    <3>1. i - Len(fs) \in 1..Len(gs) /\ Len(fs) + (i - Len(fs)) = i
      BY <1>1, <1>2, <2>2
    <3>2. both[i] = gs[i - Len(fs)]
      BY <1>1, <3>1
    <3>3. QED
      BY <3>1, <3>2
  <2>3. QED
    BY <2>1, <2>2
<1>4. \A i \in 1..Len(fs) : i \in DOMAIN both /\ both[i] = fs[i]
  BY <1>1, <1>2
<1>5. \A i \in 1..Len(gs) : Len(fs) + i \in DOMAIN both /\ both[Len(fs) + i] = gs[i]
  BY <1>1, <1>2
<1>6. ASSUME NEW m \in LoadsOf(fs)
      PROVE  m \in LoadsOf(both)
  <2>1. /\ \E i \in 1..Len(fs) : fs[i].load = m
        /\ \A arch \in Archs : \E i \in 1..Len(fs) : fs[i].arch = arch /\ fs[i].load = m
    BY <1>2 DEF LoadsOf
  <2>2. /\ \E i \in DOMAIN both : both[i].load = m
        /\ \A arch \in Archs : \E i \in DOMAIN both : both[i].arch = arch /\ both[i].load = m
    BY <1>4, <2>1
  <2>3. QED
    BY <2>2 DEF LoadsOf
<1>7. n \in LoadsOf(both)
  <2>1. \A arch \in Archs : \E i \in DOMAIN both : both[i].arch = arch /\ both[i].load = n
    BY <1>5
  <2>2. \E i \in DOMAIN both : both[i].load = n
    BY <2>1 DEF Archs
  <2>3. QED
    BY <2>1, <2>2 DEF LoadsOf
<1>8. ASSUME NEW m \in LoadsOf(both), m # n
      PROVE  m \in LoadsOf(fs)
  <2>1. \A arch \in Archs : \E i \in 1..Len(fs) : fs[i].arch = arch /\ fs[i].load = m
    <3>1. ASSUME NEW arch \in Archs
          PROVE  \E i \in 1..Len(fs) : fs[i].arch = arch /\ fs[i].load = m
      <4>1. PICK i \in 1..Len(both) : both[i].arch = arch /\ both[i].load = m
        BY <1>2 DEF LoadsOf
      <4>2. i \in 1..Len(fs) /\ both[i] = fs[i]
        BY <1>3, <1>8, <4>1
      <4>3. QED
        BY <4>1, <4>2
    <3>2. QED
      BY <3>1
  <2>2. \E i \in 1..Len(fs) : fs[i].load = m
    BY <2>1 DEF Archs
  <2>3. QED
    BY <1>2, <2>1, <2>2 DEF LoadsOf
<1>9. QED
  BY <1>6, <1>7, <1>8 DEF both

-----------------------------------------------------------------------------
(* The invariant holds at first and is kept by every action.               *)

USE DEF IInv

LEMMA ScenarioFacts ==
  /\ Len(Scenarios) \in Nat \ {0}
  /\ \A i \in 1..Len(Scenarios) :
       /\ Scenarios[i].steps \in Seq(Nat) /\ Scenarios[i].ceiling \in Nat
       /\ StepsValid(Scenarios[i].steps, Scenarios[i].ceiling)
<1> DEFINE R == [steps : Seq(Nat), ceiling : Nat]
<1>1. /\ Scenarios \in Seq(R) /\ Scenarios # <<>>
      /\ \A i \in DOMAIN Scenarios : StepsValid(Scenarios[i].steps, Scenarios[i].ceiling)
  BY InputAssumption
<1>2. \A r \in R : r.steps \in Seq(Nat) /\ r.ceiling \in Nat
  OBVIOUS
<1> HIDE DEF R
<1>3. /\ Len(Scenarios) \in Nat \ {0} /\ DOMAIN Scenarios = 1..Len(Scenarios)
      /\ \A i \in 1..Len(Scenarios) : Scenarios[i] \in R
  BY <1>1
<1>4. QED
  BY <1>1, <1>2, <1>3

LEMMA InitIInv ==
  ASSUME Init
  PROVE  IInv
<1>1. /\ Len(Scenarios) \in Nat \ {0} /\ Scenarios[1].steps \in Seq(Nat)
      /\ StepsValid(Scenarios[1].steps, Scenarios[1].ceiling)
  BY ScenarioFacts
<1>2. IsSequence(<<>>) /\ Len(<<>>) = 0 /\ DOMAIN <<>> = {}
  BY DEF IsSequence, Range
<1>3. TypeInv
  <2>1. 1 \in 1..Len(steps)
    <3>1. steps \in Seq(Nat) /\ StepsValid(steps, Scenarios[1].ceiling)
      BY <1>1 DEF Init
    <3>2. QED
      BY <3>1, StepsIncrease
  <2>2. steps \in Seq(Nat) /\ StepsValid(steps, Scenarios[1].ceiling)
    BY <1>1 DEF Init
  <2>3. 1 \in 1..Len(Scenarios)
    BY <1>1
  <2>4. QED
    BY <1>2, <2>1, <2>2, <2>3 DEF Init, TypeInv
<1>4. FilesInv /\ CloseInv
  BY DEF Init, FilesInv, CloseInv
<1>5. RepeatsInv /\ StopLosesNothing /\ ReportWhole
  BY <1>2 DEF Init, RepeatsInv, StopLosesNothing, ReportWhole
<1>6. DecisionInv
  BY DEF Init, DecisionInv, ReferenceSustained
<1>7. SelectedInv
  BY <1>2 DEF Init, SelectedInv
<1>8. QED
  BY <1>3, <1>4, <1>5, <1>6, <1>7

(* Nothing is asked of a benchmark that failed. *)
LEMMA FailIInv ==
  ASSUME IInv, NEW why, Fail(why)
  PROVE  IInv'
<1>1. IsSequence(<<>>) /\ Len(<<>>) = 0 /\ DOMAIN <<>> = {}
  BY DEF IsSequence, Range
<1>2. TypeInv'
  <2>1. 1 \in 1..Len(steps)
    BY StepsIncrease DEF TypeInv
  <2>2. QED
    BY <1>1, <2>1 DEF Fail, TypeInv
<1>3. FilesInv' /\ CloseInv'
  BY DEF Fail, FilesInv, CloseInv
<1>4. RepeatsInv' /\ StopLosesNothing' /\ ReportWhole'
  BY <1>1 DEF Fail, RepeatsInv, StopLosesNothing, ReportWhole
<1>5. DecisionInv'
  BY DEF Fail, DecisionInv, ReferenceSustained
<1>6. SelectedInv'
  BY DEF Fail, SelectedInv
<1>7. QED
  BY <1>2, <1>3, <1>4, <1>5, <1>6

(* What the environment does is nothing to the invariant. *)
LEMMA StaysIInv ==
  ASSUME IInv, Stays
  PROVE  IInv'
<1> USE DEF Stays, ladder, results
<1>1. TypeInv'
  BY DEF TypeInv
<1>2. FilesInv'
  BY DEF FilesInv, Climbed, StepsUpTo
<1>3. CloseInv'
  BY DEF CloseInv, Readable
<1>4. RepeatsInv' /\ StopLosesNothing' /\ ReportWhole'
  BY DEF RepeatsInv, StopLosesNothing, ReportWhole, Boundaries
<1>5. DecisionInv'
  BY DEF DecisionInv, ReferenceSustained
<1>6. SelectedInv'
  BY DEF SelectedInv
<1>7. QED
  BY <1>1, <1>2, <1>3, <1>4, <1>5, <1>6

LEMMA StutterIInv ==
  ASSUME IInv, UNCHANGED vars
  PROVE  IInv'
<1>1. Stays
  BY DEF vars, Stays, ladder, results
<1>2. QED
  BY <1>1, StaysIInv

(* The steps between a repeat's results, which leave its repeats and its
   steps alone. *)
LEMMA SameRepeats ==
  ASSUME IInv, pc # "attempt",
         UNCHANGED <<steps, repeats>>
  PROVE  RepeatsInv' /\ StopLosesNothing' /\ ReportWhole'
<1>1. RepeatsInv'
  BY DEF RepeatsInv
<1>2. StopLosesNothing'
  BY DEF StopLosesNothing, Boundaries
<1>3. ReportWhole'
  BY DEF ReportWhole
<1>4. QED
  BY <1>1, <1>2, <1>3

LEMMA PreflightIInv ==
  ASSUME IInv, Preflight
  PROVE  IInv'
<1> DEFINE info == CollectHostInfo(machine, Cpusets, TRUE)
<1>1. CASE Fail("preflight")
  BY <1>1, FailIInv
<1>2. CASE ~Fail("preflight")
  <2>1. /\ pc = "preflight" /\ pc' = "attempt"
        /\ UNCHANGED <<scenario, attempt, steps, ladder, results, selected>>
    BY <1>2 DEF Preflight
  <2> USE <2>1 DEF ladder, results
  <2>2. TypeInv'
    BY DEF TypeInv
  <2>3. FilesInv' /\ CloseInv'
    BY DEF FilesInv, CloseInv
  <2>4. RepeatsInv' /\ StopLosesNothing' /\ ReportWhole'
    BY SameRepeats
  <2>5. DecisionInv'
    BY DEF DecisionInv, ReferenceSustained
  <2>6. SelectedInv'
    BY DEF SelectedInv
  <2>7. QED
    BY <2>2, <2>3, <2>4, <2>5, <2>6
<1>3. QED
  BY <1>1, <1>2

LEMMA StartAttemptIInv ==
  ASSUME IInv, StartAttempt
  PROVE  IInv'
<1>1. IsSequence(<<>>) /\ Len(<<>>) = 0 /\ DOMAIN <<>> = {}
  BY DEF IsSequence, Range
<1> USE DEF StartAttempt, ladder
<1>2. TypeInv'
  BY <1>1 DEF TypeInv
<1>3. FilesInv' /\ CloseInv'
  BY DEF FilesInv, CloseInv
<1>4. RepeatsInv' /\ StopLosesNothing' /\ ReportWhole'
  BY <1>1 DEF RepeatsInv, StopLosesNothing, ReportWhole
<1>5. DecisionInv'
  BY DEF DecisionInv, ReferenceSustained
<1>6. SelectedInv'
  BY DEF SelectedInv
<1>7. QED
  BY <1>2, <1>3, <1>4, <1>5, <1>6

LEMMA StartRepeatIInv ==
  ASSUME IInv, StartRepeat
  PROVE  IInv'
<1>1. CASE Fail("host")
  BY <1>1, FailIInv
<1>2. CASE ~Fail("host")
  <2>1. /\ pc = "host" /\ pc' = "measure"
        /\ rung' = 1 /\ files' = <<>>
        /\ UNCHANGED <<scenario, attempt, steps, repeats, decision, selected>>
    BY <1>2 DEF StartRepeat, results
  <2>2. IsSequence(<<>>) /\ Len(<<>>) = 0 /\ DOMAIN <<>> = {}
    BY DEF IsSequence, Range
  <2>3. TypeInv'
    <3>1. 1 \in 1..Len(steps)
      BY StepsIncrease DEF TypeInv
    <3>2. QED
      BY <2>1, <2>2, <3>1 DEF TypeInv
  <2>4. FilesInv'
    <3>1. LoadsOf(<<>>) = {}
      BY <2>2 DEF LoadsOf
    <3>2. Climbed' = 0
      BY <2>1 DEF Climbed
    <3>3. StepsUpTo(0)' = {}
      BY DEF StepsUpTo
    <3>4. QED
      BY <2>1, <3>1, <3>2, <3>3 DEF FilesInv, StepsUpTo
  <2>5. CloseInv'
    BY <2>1 DEF CloseInv
  <2>6. RepeatsInv' /\ StopLosesNothing' /\ ReportWhole'
    BY <2>1, SameRepeats
  <2>7. DecisionInv'
    BY <2>1 DEF DecisionInv, ReferenceSustained
  <2>8. SelectedInv'
    BY <2>1 DEF SelectedInv
  <2>9. QED
    BY <2>3, <2>4, <2>5, <2>6, <2>7, <2>8
<1>3. QED
  BY <1>1, <1>2

LEMMA RunAbbaIInv ==
  ASSUME IInv, RunAbba
  PROVE  IInv'
<1>1. PICK a, b :
        LET n     == steps[rung]
            order == <<File("native", n, a[1]), File("legacy", n, b[1]),
                       File("legacy", n, b[2]), File("native", n, a[2])>>
        IN IF LoadgenFailsOn(a \o b)
           THEN Fail("loadgen")
           ELSE /\ files' = files \o order
                /\ pc' = "report"
                /\ UNCHANGED <<failure, env, preflight, scenario, attempt, steps, source,
                               host, rung, report, capacity, results, selected>>
  BY DEF RunAbba
<1> DEFINE n == steps[rung]
           order == <<File("native", n, a[1]), File("legacy", n, b[1]),
                      File("legacy", n, b[2]), File("native", n, a[2])>>
<1>2. CASE Fail("loadgen")
  BY <1>2, FailIInv
<1>3. CASE ~Fail("loadgen")
  <2>1. /\ pc = "measure" /\ pc' = "report"
        /\ files' = files \o order
        /\ UNCHANGED <<scenario, attempt, steps, rung, report, capacity,
                       repeats, decision, selected>>
    BY <1>1, <1>3 DEF RunAbba, results
  <2>2. FilesOfStep(order, n)
    <3> DEFINE f1 == File("native", n, a[1])
               f2 == File("legacy", n, b[1])
               f3 == File("legacy", n, b[2])
               f4 == File("native", n, a[2])
               S  == {f1, f2, f3, f4}
    <3>1. /\ f1.load = n /\ f2.load = n /\ f3.load = n /\ f4.load = n
          /\ f1.arch = "native" /\ f2.arch = "legacy"
      BY DEF File
    <3>2. f1 \in S /\ f2 \in S /\ f3 \in S /\ f4 \in S /\ order = <<f1, f2, f3, f4>>
      OBVIOUS
    <3> HIDE DEF f1, f2, f3, f4, S, order
    <3>3. order \in Seq(S) /\ Len(order) = 4
      BY <3>2
    <3>4. IsSequence(order)
      BY <3>3, SequenceOf
    <3>5. order[1] = f1 /\ order[2] = f2 /\ order[3] = f3 /\ order[4] = f4
      BY <3>2
    <3>6. ASSUME NEW i \in 1..Len(order)
          PROVE  order[i].load = n
      <4>1. i = 1 \/ i = 2 \/ i = 3 \/ i = 4
        BY <3>3
      <4>2. QED
        BY <3>1, <3>5, <4>1
    <3>7. 1 \in 1..Len(order) /\ 2 \in 1..Len(order)
      BY <3>3
    <3>8. QED
      BY <3>1, <3>3, <3>4, <3>5, <3>6, <3>7 DEF Archs, FilesOfStep
  <2> HIDE DEF order
  <2>3. TypeInv'
    <3>1. IsSequence(files')
      BY <2>1, <2>2, ConcatIsSequence DEF TypeInv, FilesOfStep
    <3>2. QED
      BY <2>1, <3>1 DEF TypeInv
  <2>4. FilesInv'
    <3>1. LoadsOf(files') = LoadsOf(files) \union {n}
      <4> HIDE DEF n
      <4>1. IsSequence(files)
        BY DEF TypeInv
      <4>2. LoadsOf(files \o order) = LoadsOf(files) \union {n}
        BY <2>2, <4>1, LoadsOfConcat
      <4>3. QED
        BY <2>1, <4>2
    <3>2. LoadsOf(files) = StepsUpTo(rung - 1)
      BY <2>1 DEF FilesInv, Climbed
    <3>3. StepsUpTo(rung) = StepsUpTo(rung - 1) \union {steps[rung]}
      <4>1. rung \in Nat \ {0}
        BY StepsIncrease DEF TypeInv
      <4>2. 1..rung = 1..(rung - 1) \union {rung}
        BY <4>1
      <4>3. QED
        BY <4>2 DEF StepsUpTo
    <3>4. Climbed' = rung
      BY <2>1 DEF Climbed
    <3>5. StepsUpTo(Climbed)' = StepsUpTo(rung)
      BY <2>1, <3>4 DEF StepsUpTo
    <3>6. QED
      BY <3>1, <3>2, <3>3, <3>5 DEF FilesInv
  <2>5. CloseInv'
    BY <2>1 DEF CloseInv
  <2>6. RepeatsInv' /\ StopLosesNothing' /\ ReportWhole'
    BY <2>1, SameRepeats
  <2>7. DecisionInv'
    BY <2>1 DEF DecisionInv, ReferenceSustained
  <2>8. SelectedInv'
    BY <2>1 DEF SelectedInv
  <2>9. QED
    BY <2>3, <2>4, <2>5, <2>6, <2>7, <2>8
<1>4. QED
  BY <1>2, <1>3

LEMMA ReportStepIInv ==
  ASSUME IInv, ReportStep
  PROVE  IInv'
<1> DEFINE rows == IF Readable THEN Report(files) ELSE report
           judged == EvaluateCapacity(rows, SLO)
           stop == BothFailedAt(judged, steps[rung])
<1>1. CASE Fail("capacity")
  BY <1>1, FailIInv
<1>2. CASE ~Fail("capacity")
  <2>1. /\ pc = "report"
        /\ capacity' = judged
        /\ \/ (stop \/ rung = Len(steps)) /\ pc' = "close" /\ rung' = rung
           \/ ~(stop \/ rung = Len(steps)) /\ pc' = "measure" /\ rung' = rung + 1
        /\ UNCHANGED <<scenario, attempt, steps, files, repeats, decision, selected>>
    BY <1>2 DEF ReportStep, results
  <2> HIDE DEF judged, stop
  <2>2. pc' \in {"close", "measure"}
    BY <2>1
  <2>3. TypeInv'
    <3>1. Len(steps) \in Nat /\ rung \in 1..Len(steps)
      BY StepsIncrease DEF TypeInv
    <3>2. rung' \in 1..Len(steps)
      <4>1. CASE rung' = rung
        BY <3>1, <4>1
      <4>2. CASE rung' = rung + 1 /\ rung # Len(steps)
        BY <3>1, <4>2
      <4>3. QED
        BY <2>1, <4>1, <4>2
    <3>3. QED
      BY <2>1, <2>2, <3>2 DEF TypeInv
  <2>4. FilesInv'
    <3>1. LoadsOf(files) = StepsUpTo(rung)
      BY <2>1 DEF FilesInv, Climbed
    <3>2. rung \in Nat
      BY StepsIncrease DEF TypeInv
    <3>3. Climbed' = rung
      BY <2>1, <3>2 DEF Climbed
    <3>4. StepsUpTo(Climbed)' = StepsUpTo(rung)
      BY <2>1, <3>3 DEF StepsUpTo
    <3>5. QED
      BY <2>1, <3>1, <3>4 DEF FilesInv
  <2>5. CloseInv'
    <3>1. Readable' => capacity' = EvaluateCapacity(Report(files), SLO)'
      BY <2>1 DEF judged, Readable
    <3>2. pc' = "close" => rung = Len(steps) \/ stop
      BY <2>1
    <3>3. stop = BothFailedAt(capacity, steps[rung])' \/ pc' # "close"
      <4>1. pc' = "close" => rung' = rung
        BY <2>1
      <4>2. QED
        BY <2>1, <4>1 DEF stop
    <3>4. QED
      BY <2>1, <3>1, <3>2, <3>3 DEF CloseInv
  <2>6. RepeatsInv' /\ StopLosesNothing' /\ ReportWhole'
    BY <2>1, SameRepeats
  <2>7. DecisionInv'
    BY <2>1, <2>2 DEF DecisionInv, ReferenceSustained
  <2>8. SelectedInv'
    BY <2>1, <2>2 DEF SelectedInv
  <2>9. QED
    BY <2>3, <2>4, <2>5, <2>6, <2>7, <2>8
<1>3. QED
  BY <1>1, <1>2

(* The heart of the argument: the repeat that closes keeps a capacity made
   from the files of every step it ran. *)
LEMMA FinalReportIInv ==
  ASSUME IInv, FinalReport
  PROVE  IInv'
<1> DEFINE judged == EvaluateCapacity(Report(files), SLO)
           directory == [host |-> host, capacity |-> judged, last |-> steps[rung],
                         measured |-> TRUE, examined |-> TRUE]
<1>1. CASE Fail("report")
  BY <1>1, FailIInv
<1>2. CASE ~Fail("report")
  <2>1. /\ pc = "close" /\ Readable
        /\ repeats' = Append(repeats, directory)
        /\ rung' = 1 /\ files' = <<>>
        /\ pc' \in {"decide", "host"}
        /\ UNCHANGED <<scenario, attempt, steps, decision, selected>>
    BY <1>2 DEF FinalReport, CloseRepeat
  <2>2. /\ Len(steps) \in Nat \ {0} /\ rung \in 1..Len(steps)
        /\ IsSequence(repeats)
    BY StepsIncrease DEF TypeInv
  <2>3. /\ directory.capacity = judged /\ directory.last = steps[rung]
        /\ directory.measured /\ directory.examined
    OBVIOUS
  <2>4. ASSUME NEW arch \in Archs
        PROVE  /\ {p.streams : p \in Range(judged[arch].points)} = StepsUpTo(rung)
               /\ CapacitySound(judged[arch])
    <3>1. LoadsOf(files) = StepsUpTo(rung)
      BY <2>1 DEF FilesInv, Climbed
    <3>2. DOMAIN Report(files) = StepsUpTo(rung)
      BY <3>1 DEF Report
    <3>3. rung \in 0..Len(steps)
      BY <2>2
    <3>4. StepsUpTo(rung) \in SUBSET (Nat \ {0}) /\ IsFiniteSet(StepsUpTo(rung))
      BY <3>3, StepsUpToFacts
    <3>5. QED
      BY <3>2, <3>4, EvaluateCapacityFacts
  <2>5. rung = Len(steps) \/ \A arch \in Archs : judged[arch].first_failed # NoStep
    <3>1. CASE rung = Len(steps)
      BY <3>1
    <3>2. CASE rung # Len(steps)
      <4>1. BothFailedAt(judged, steps[rung])
        BY <2>1, <3>2 DEF CloseInv
      <4>2. ASSUME NEW arch \in Archs
            PROVE  judged[arch].first_failed # NoStep
        <5>1. \E p \in Range(judged[arch].points) : ~p.pass
          BY <4>1 DEF BothFailedAt, PointAt
        <5>2. QED
          BY <2>4, <5>1 DEF CapacitySound
      <4>3. QED
        BY <4>2
    <3>3. QED
      BY <3>1, <3>2
  <2> HIDE DEF judged, directory
  <2>6. /\ IsSequence(repeats') /\ DOMAIN repeats' = 1..(Len(repeats) + 1)
        /\ Len(repeats) \in Nat /\ DOMAIN repeats = 1..Len(repeats)
        /\ \A i \in DOMAIN repeats : repeats'[i] = repeats[i]
        /\ repeats'[Len(repeats) + 1] = directory
    <3>1. /\ IsSequence(repeats')
          /\ Len(repeats') = Len(repeats) + 1
          /\ repeats'[Len(repeats) + 1] = directory
          /\ \A i \in 1..Len(repeats) : repeats'[i] = repeats[i]
      BY <2>1, <2>2, AppendIsSequence
    <3>2. Len(repeats) \in Nat /\ DOMAIN repeats = 1..Len(repeats)
      BY <2>2, SequenceFacts
    <3>3. DOMAIN repeats' = 1..Len(repeats')
      BY <3>1, SequenceFacts
    <3>4. QED
      BY <3>1, <3>2, <3>3
  <2>7. ASSUME NEW i \in DOMAIN repeats'
        PROVE  \/ i \in DOMAIN repeats /\ repeats'[i] = repeats[i]
               \/ repeats'[i] = directory
    <3>1. i \in 1..Len(repeats) \/ i = Len(repeats) + 1
      BY <2>6
    <3>2. QED
      BY <2>6, <3>1
  <2>8. TypeInv'
    <3>1. IsSequence(<<>>)
      BY DEF IsSequence, Range
    <3>2. 1 \in 1..Len(steps)
      BY <2>2
    <3>3. QED
      BY <2>1, <2>6, <3>1, <3>2 DEF TypeInv
  <2>9. FilesInv' /\ CloseInv'
    BY <2>1 DEF FilesInv, CloseInv
  <2>10. RepeatsInv'
    <3>1. ASSUME NEW i \in DOMAIN repeats'
          PROVE  /\ repeats'[i].measured /\ repeats'[i].examined
                 /\ \A arch \in Archs : CapacitySound(repeats'[i].capacity[arch])
      <4>1. CASE i \in DOMAIN repeats /\ repeats'[i] = repeats[i]
        BY <4>1 DEF RepeatsInv
      <4>2. CASE repeats'[i] = directory
        BY <2>3, <2>4, <4>2
      <4>3. QED
        BY <2>7, <4>1, <4>2
    <3>2. QED
      BY <3>1 DEF RepeatsInv
  <2>11. StopLosesNothing'
    <3>1. ASSUME NEW i \in DOMAIN repeats', repeats'[i].last # Last(steps)
          PROVE  Boundaries(repeats'[i])
      <4>1. CASE i \in DOMAIN repeats /\ repeats'[i] = repeats[i]
        BY <2>1, <3>1, <4>1 DEF StopLosesNothing
      <4>2. CASE repeats'[i] = directory
        <5>1. rung # Len(steps)
          BY <2>3, <3>1, <4>2 DEF Last
        <5>2. QED
          BY <2>3, <2>5, <4>2, <5>1 DEF Boundaries
      <4>3. QED
        BY <2>7, <4>1, <4>2
    <3>2. QED
      BY <2>1, <3>1 DEF StopLosesNothing, Boundaries
  <2>12. ReportWhole'
    <3>1. ASSUME NEW i \in DOMAIN repeats', NEW arch \in Archs
          PROVE  {p.streams : p \in Range(repeats'[i].capacity[arch].points)}
                   = {steps'[k] : k \in {j \in DOMAIN steps' : steps'[j] <= repeats'[i].last}}
      <4>0. steps' = steps
        BY <2>1
      <4>1. CASE i \in DOMAIN repeats /\ repeats'[i] = repeats[i]
        <5>1. {p.streams : p \in Range(repeats[i].capacity[arch].points)}
                = {steps[k] : k \in {j \in DOMAIN steps : steps[j] <= repeats[i].last}}
          BY <2>1, <4>1 DEF ReportWhole
        <5>2. QED
          BY <4>0, <4>1, <5>1
      <4>2. CASE repeats'[i] = directory
        <5>1. rung \in 0..Len(steps) /\ rung # 0
          BY <2>2
        <5>2. StepsUpTo(rung)
                = {steps[k] : k \in {j \in DOMAIN steps : steps[j] <= steps[rung]}}
          BY <5>1, StepsUpToFacts
        <5>3. QED
          BY <2>3, <2>4, <4>0, <4>2, <5>2
      <4>3. QED
        BY <2>7, <4>1, <4>2
    <3>2. QED
      BY <3>1 DEF ReportWhole
  <2>13. DecisionInv'
    BY <2>1 DEF DecisionInv, ReferenceSustained
  <2>14. SelectedInv'
    BY <2>1 DEF SelectedInv
  <2>15. QED
    BY <2>8, <2>9, <2>10, <2>11, <2>12, <2>13, <2>14
<1>3. QED
  BY <1>1, <1>2

(* The reference load is at most what any repeat sustains, so it lies below
   every failure; that it was measured everywhere is part of Decidable. *)
LEMMA CommonReferenceFacts ==
  ASSUME IInv
  PROVE  LET loaded == LoadRepeatSet(repeats)
         IN  Decidable(loaded, Policy) =>
               \A i \in DOMAIN repeats, arch \in Archs :
                 /\ PointAt(repeats[i].capacity, arch, CommonReference(loaded)) # {}
                 /\ \A p \in Range(repeats[i].capacity[arch].points) :
                      p.streams <= CommonReference(loaded) => p.pass
<1> DEFINE loaded == LoadRepeatSet(repeats)
           reference == CommonReference(loaded)
           found == UNION {Range(Capacities(loaded, arch)) : arch \in Archs}
           D == DOMAIN repeats
           kept == Ascending(D)
           n == Cardinality(D)
<1>1. /\ IsSequence(repeats) /\ Len(repeats) \in Nat /\ D = 1..Len(repeats)
      /\ IsFiniteSet(D)
  <2>1. IsSequence(repeats)
    BY DEF TypeInv
  <2>2. Len(repeats) \in Nat /\ D = 1..Len(repeats)
    BY <2>1, SequenceFacts
  <2>3. QED
    BY <2>1, <2>2, FS_Interval
<1>2. loaded = [k \in DOMAIN kept |-> repeats[kept[k]]]
  <2>1. {i \in DOMAIN repeats : repeats[i].measured /\ repeats[i].examined} = D
    BY DEF RepeatsInv
  <2>2. QED
    BY <2>1 DEF LoadRepeatSet
<1>3. /\ n \in Nat /\ kept \in [1..n -> D]
      /\ \A i \in D : \E k \in 1..n : kept[k] = i
  <2>1. D \in SUBSET Nat
    BY <1>1
  <2>2. QED
    BY <1>1, <2>1, AscendingFacts
<1> HIDE DEF loaded, D, kept, n
<1>4. /\ DOMAIN loaded = 1..n
      /\ \A k \in DOMAIN loaded : \E i \in D : loaded[k] = repeats[i]
      /\ \A i \in D : \E k \in DOMAIN loaded : loaded[k] = repeats[i]
  BY <1>2, <1>3
<1>5. ASSUME NEW k \in DOMAIN loaded, NEW arch \in Archs
      PROVE  CapacitySound(loaded[k].capacity[arch])
  BY <1>4 DEF RepeatsInv, D
<1>6. ASSUME NEW k \in DOMAIN loaded, NEW arch \in Archs
      PROVE  loaded[k].capacity[arch].max_sustainable \in found
  BY DEF Capacities, Range
<1>7. found \in SUBSET Nat
  <2>1. ASSUME NEW arch \in Archs, NEW x \in Range(Capacities(loaded, arch))
        PROVE  x \in Nat
    <3>1. PICK k \in DOMAIN loaded : x = loaded[k].capacity[arch].max_sustainable
      BY DEF Capacities, Range
    <3>2. QED
      BY <1>5, <3>1 DEF CapacitySound
  <2>2. QED
    BY <2>1
<1>8. reference = Min(found)
  BY DEF CommonReference
<1> HIDE DEF reference, found
<1>9. ASSUME Decidable(loaded, Policy), NEW i \in DOMAIN repeats, NEW arch \in Archs
      PROVE  /\ PointAt(repeats[i].capacity, arch, reference) # {}
             /\ \A p \in Range(repeats[i].capacity[arch].points) :
                  p.streams <= reference => p.pass
  <2>1. PICK k \in DOMAIN loaded : loaded[k] = repeats[i]
    BY <1>4 DEF D
  <2>2. PointAt(loaded[k].capacity, arch, reference) # {}
    BY <1>9 DEF Decidable, Comparable, reference
  <2> DEFINE c == loaded[k].capacity[arch]
  <2>3. CapacitySound(c) /\ c.max_sustainable \in found
    BY <1>5, <1>6
  <2> HIDE DEF c
  <2>4. c.max_sustainable \in Nat /\ reference \in Nat /\ reference <= c.max_sustainable
    BY <1>7, <1>8, <2>3, MinFacts
  <2>5. ASSUME NEW p \in Range(c.points), p.streams <= reference
        PROVE  p.pass
    <3>1. p.streams \in Nat
      BY <2>3 DEF CapacitySound
    <3>2. p.streams <= c.max_sustainable
      BY <2>4, <2>5, <3>1
    <3>3. QED
      BY <2>3, <3>2 DEF CapacitySound
  <2>6. QED
    BY <2>1, <2>2, <2>5 DEF c
<1>10. QED
  BY <1>9 DEF loaded, reference

LEMMA DecideIInv ==
  ASSUME IInv, Decide
  PROVE  IInv'
<1> DEFINE loaded == LoadRepeatSet(repeats)
<1>1. CASE Fail("decision")
  BY <1>1, FailIInv
<1>2. CASE ~Fail("decision")
  <2>1. /\ pc = "decide" /\ pc' = "check"
        /\ Decidable(loaded, Policy)
        /\ decision' = AggregateRepeats(loaded, Policy)
        /\ UNCHANGED <<scenario, attempt, steps, ladder, repeats, selected>>
    BY <1>2 DEF Decide
  <2> HIDE DEF loaded
  <2>2. TypeInv'
    BY <2>1 DEF TypeInv, ladder
  <2>3. FilesInv' /\ CloseInv'
    BY <2>1 DEF FilesInv, CloseInv
  <2>4. RepeatsInv' /\ StopLosesNothing' /\ ReportWhole'
    BY <2>1, SameRepeats
  <2>5. DecisionInv'
    <3>1. decision'.reference = CommonReference(loaded)
      BY <2>1 DEF AggregateRepeats
    <3>2. \A i \in DOMAIN repeats, arch \in Archs :
            /\ PointAt(repeats[i].capacity, arch, CommonReference(loaded)) # {}
            /\ \A p \in Range(repeats[i].capacity[arch].points) :
                 p.streams <= CommonReference(loaded) => p.pass
      BY <2>1, CommonReferenceFacts DEF loaded
    <3>3. repeats' = repeats
      BY <2>1
    <3>4. ReferenceSustained'
      BY <3>1, <3>2, <3>3 DEF ReferenceSustained
    <3>5. QED
      BY <2>1, <3>4 DEF DecisionInv
  <2>6. SelectedInv'
    BY <2>1 DEF SelectedInv
  <2>7. QED
    BY <2>2, <2>3, <2>4, <2>5, <2>6
<1>3. QED
  BY <1>1, <1>2

LEMMA SelectIInv ==
  ASSUME IInv, Select
  PROVE  IInv'
<1>1. IsSequence(<<>>) /\ Len(<<>>) = 0 /\ DOMAIN <<>> = {}
  BY DEF IsSequence, Range
<1>2. /\ pc = "check" /\ repeats' = <<>> /\ decision' = Nothing
      /\ selected' = Append(selected, Summary)
      /\ \/ /\ scenario < Len(Scenarios)
            /\ scenario' = scenario + 1 /\ attempt' = 1
            /\ steps' = Scenarios[scenario + 1].steps
            /\ pc' = "attempt"
         \/ /\ ~(scenario < Len(Scenarios))
            /\ pc' = "aggregate" /\ UNCHANGED <<scenario, attempt, steps>>
      /\ UNCHANGED <<rung, files, report, capacity>>
  BY DEF Select, ladder
<1>3. Len(Scenarios) \in Nat /\ scenario \in 1..Len(Scenarios)
  BY ScenarioFacts DEF TypeInv
<1>4. IsSequence(selected') /\ Len(selected') = scenario
  <2>1. IsSequence(selected) /\ Len(selected) = scenario - 1
    BY <1>2 DEF TypeInv, SelectedInv
  <2>2. IsSequence(selected') /\ Len(selected') = Len(selected) + 1
    BY <1>2, <2>1, AppendIsSequence
  <2>3. QED
    BY <1>3, <2>1, <2>2
<1>5. ASSUME scenario < Len(Scenarios)
      PROVE  TypeInv' /\ SelectedInv'
  <2>1. /\ pc' = "attempt" /\ scenario' = scenario + 1 /\ attempt' = 1
        /\ steps' = Scenarios[scenario + 1].steps
    BY <1>2, <1>5
  <2>2. scenario + 1 \in 1..Len(Scenarios)
    BY <1>3, <1>5
  <2>3. /\ steps' \in Seq(Nat)
        /\ StepsValid(steps', Scenarios[scenario'].ceiling)
    BY <2>1, <2>2, ScenarioFacts
  <2>4. rung' \in 1..Len(steps')
    <3>1. rung = 1
      BY <1>2 DEF TypeInv
    <3>2. Len(steps') \in Nat \ {0}
      BY <2>3, StepsIncrease
    <3>3. QED
      BY <1>2, <3>1, <3>2
  <2>5. TypeInv'
    BY <1>1, <1>2, <1>4, <2>1, <2>2, <2>3, <2>4 DEF TypeInv
  <2>6. SelectedInv'
    <3>1. Len(selected') = scenario' - 1
      BY <1>3, <1>4, <2>1
    <3>2. QED
      BY <2>1, <3>1 DEF SelectedInv
  <2>7. QED
    BY <2>5, <2>6
<1>6. ASSUME ~(scenario < Len(Scenarios))
      PROVE  TypeInv' /\ SelectedInv'
  <2>1. pc' = "aggregate" /\ UNCHANGED <<scenario, attempt, steps>>
    BY <1>2, <1>6
  <2>2. TypeInv'
    BY <1>1, <1>2, <1>4, <2>1 DEF TypeInv
  <2>3. scenario = Len(Scenarios)
    BY <1>3, <1>6
  <2>4. SelectedInv'
    BY <1>4, <2>1, <2>3 DEF SelectedInv
  <2>5. QED
    BY <2>2, <2>4
<1>7. pc' \notin {"measure", "report", "close", "done"}
  BY <1>2
<1>8. FilesInv' /\ CloseInv'
  BY <1>7 DEF FilesInv, CloseInv
<1>9. RepeatsInv' /\ StopLosesNothing' /\ ReportWhole'
  BY <1>1, <1>2 DEF RepeatsInv, StopLosesNothing, ReportWhole
<1>10. DecisionInv'
  BY <1>2 DEF DecisionInv, ReferenceSustained
<1>11. TypeInv' /\ SelectedInv'
  BY <1>5, <1>6
<1>12. QED
  BY <1>8, <1>9, <1>10, <1>11

(* A longer staircase has the same steps and one more within the ceiling. *)
LEMMA ExtendStepsFacts ==
  ASSUME TypeInv, Extensible
  PROVE  /\ ExtendSteps \in Seq(Nat)
         /\ StepsValid(ExtendSteps, Scenarios[scenario].ceiling)
         /\ IsPrefix(steps, ExtendSteps)
         /\ Len(ExtendSteps) = Len(steps) + 1
<1> DEFINE n == Len(steps)
           top == Last(steps)
           ceiling == Scenarios[scenario].ceiling
           next == Min({2 * top, ceiling})
           longer == Append(steps, next)
<1>1. /\ n \in Nat \ {0} /\ DOMAIN steps = 1..n
      /\ \A i \in 1..n : steps[i] \in Nat \ {0}
      /\ \A i, j \in 1..n : i < j => steps[i] < steps[j]
  BY StepsIncrease DEF TypeInv
<1>2. top = steps[n] /\ top \in Nat \ {0} /\ ceiling \in Nat
  BY <1>1, ScenarioFacts DEF TypeInv, Last
<1>3. top < ceiling
  BY DEF Extensible
<1>4. longer = ExtendSteps
  BY DEF ExtendSteps
<1>5. next \in Nat /\ top < next /\ next <= ceiling
  <2>1. 2 * top \in Nat /\ top < 2 * top
    BY <1>2
  <2>2. {2 * top, ceiling} \in SUBSET Nat
    BY <1>2, <2>1
  <2>3. next \in {2 * top, ceiling} /\ \A x \in {2 * top, ceiling} : next <= x
    BY <2>2, MinFacts
  <2> HIDE DEF next, top, ceiling
  <2>4. next = 2 * top \/ next = ceiling
    BY <2>3
  <2>5. next <= ceiling
    BY <2>3
  <2>6. QED
    BY <1>2, <1>3, <2>1, <2>4, <2>5
<1> HIDE DEF next, ceiling, n
<1>6. /\ longer \in Seq(Nat) /\ Len(longer) = n + 1
      /\ longer[n + 1] = next
      /\ \A i \in 1..n : longer[i] = steps[i]
  BY <1>5, AppendProperties DEF TypeInv, n
<1> HIDE DEF longer
<1>7. StepsValid(longer, ceiling)
  <2>1. longer # <<>> /\ DOMAIN longer = 1..(n + 1)
    BY <1>1, <1>6
  <2>2. ASSUME NEW i \in 1..(n + 1)
        PROVE  longer[i] > 0
    <3>1. i \in 1..n \/ i = n + 1
      BY <1>1
    <3>2. CASE i \in 1..n
      BY <1>1, <1>6, <3>2
    <3>3. CASE i = n + 1
      BY <1>2, <1>5, <1>6, <3>3
    <3>4. QED
      BY <3>1, <3>2, <3>3
  <2>3. ASSUME NEW i \in 1..n
        PROVE  longer[i] < longer[i + 1]
    <3>1. CASE i = n
      BY <1>1, <1>2, <1>5, <1>6, <3>1
    <3>2. CASE i # n
      <4>1. i + 1 \in 1..n /\ i < i + 1
        BY <1>1, <3>2
      <4>2. QED
        BY <1>1, <1>6, <4>1
    <3>3. QED
      BY <3>1, <3>2
  <2>4. Last(longer) = next
    BY <1>6 DEF Last
  <2>5. Len(longer) - 1 = n
    BY <1>1, <1>6
  <2>6. QED
    BY <1>5, <2>1, <2>2, <2>3, <2>4, <2>5 DEF StepsValid
<1>8. IsPrefix(steps, longer)
  <2>1. n <= n + 1
    BY <1>1
  <2>2. SubSeq(steps, 1, n) = SubSeq(longer, 1, n)
    <3> DEFINE a == SubSeq(steps, 1, n)
               b == SubSeq(longer, 1, n)
    <3>1. a = [i \in 1..n |-> steps[1 + i - 1]] /\ b = [i \in 1..n |-> longer[1 + i - 1]]
      BY <1>1, <1>6 DEF TypeInv, n
    <3>2. \A i \in 1..n : steps[1 + i - 1] = longer[1 + i - 1]
      <4>1. \A i \in 1..n : 1 + i - 1 = i
        BY <1>1
      <4>2. QED
        BY <1>6, <4>1
    <3>3. QED
      BY <3>1, <3>2
  <2>3. QED
    BY <1>6, <2>1, <2>2 DEF IsPrefix, n
<1>9. QED
  BY <1>4, <1>6, <1>7, <1>8 DEF ceiling, n

LEMMA ExtendIInv ==
  ASSUME IInv, Extend
  PROVE  IInv'
<1>1. /\ pc = "check" /\ pc' = "attempt" /\ Extensible
      /\ steps' = ExtendSteps /\ attempt' = attempt + 1
      /\ UNCHANGED <<scenario, rung, files, report, capacity, repeats, decision, selected>>
  BY DEF Extend, MayExtend, ladder, results
<1>2. TypeInv'
  <2>1. /\ steps' \in Seq(Nat) /\ StepsValid(steps', Scenarios[scenario].ceiling)
    BY <1>1, ExtendStepsFacts
  <2>2. rung' \in 1..Len(steps')
    <3>1. rung = 1 /\ Len(steps') \in Nat \ {0}
      BY <1>1, <2>1, StepsIncrease DEF TypeInv
    <3>2. QED
      BY <1>1, <3>1
  <2>3. QED
    BY <1>1, <2>1, <2>2 DEF TypeInv
<1>3. FilesInv' /\ CloseInv'
  BY <1>1 DEF FilesInv, CloseInv
<1>4. RepeatsInv' /\ StopLosesNothing' /\ ReportWhole'
  BY <1>1 DEF RepeatsInv, StopLosesNothing, ReportWhole
<1>5. DecisionInv'
  BY <1>1 DEF DecisionInv, ReferenceSustained
<1>6. SelectedInv'
  BY <1>1 DEF SelectedInv
<1>7. QED
  BY <1>2, <1>3, <1>4, <1>5, <1>6

(* The aggregation compares sets of field values: one value means that all
   the selected attempts agree. *)
LEMMA NoBlockersFacts ==
  ASSUME TypeInv, NoBlockers, Of("host_fingerprint") = {preflight}
  PROVE  \A i, j \in DOMAIN selected :
           /\ selected[i].ready
           /\ selected[i].host_fingerprint = preflight
           /\ selected[i].source_commit = selected[j].source_commit
<1>1. IsSequence(selected)
  BY DEF TypeInv
<1>2. \A field : \A i \in DOMAIN selected : selected[i][field] \in Of(field)
  BY DEF Of
<1>3. IsFiniteSet(Of("source_commit"))
  <2> DEFINE f == [i \in DOMAIN selected |-> selected[i]["source_commit"]]
  <2>1. f \in Surjection(DOMAIN selected, Of("source_commit"))
    BY DEF Surjection, Of
  <2>2. IsFiniteSet(DOMAIN selected)
    <3>1. Len(selected) \in Nat /\ DOMAIN selected = 1..Len(selected)
      BY <1>1, SequenceFacts
    <3>2. QED
      BY <3>1, FS_Interval
  <2>3. QED
    BY <2>1, <2>2, FS_Surjection
<1>4. PICK x : Of("source_commit") = {x}
  BY <1>3, FS_Singleton DEF NoBlockers
<1>5. Of("ready") \subseteq {TRUE}
  BY DEF NoBlockers
<1>6. ASSUME NEW i \in DOMAIN selected, NEW j \in DOMAIN selected
      PROVE  /\ selected[i].ready
             /\ selected[i].host_fingerprint = preflight
             /\ selected[i].source_commit = selected[j].source_commit
  <2>1. selected[i]["ready"] \in Of("ready")
    BY <1>2
  <2>2. selected[i]["ready"] = TRUE
    BY <1>5, <2>1
  <2>3. selected[i]["host_fingerprint"] = preflight
    BY <1>2
  <2>4. selected[i]["source_commit"] = x /\ selected[j]["source_commit"] = x
    BY <1>2, <1>4
  <2>5. QED
    BY <2>2, <2>3, <2>4
<1>7. QED
  BY <1>6

LEMMA AggregateAllIInv ==
  ASSUME IInv, AggregateAll
  PROVE  IInv'
<1>1. CASE Fail("blockers") \/ Fail("fingerprint")
  BY <1>1, FailIInv
<1>2. CASE ~(Fail("blockers") \/ Fail("fingerprint"))
  <2>1. /\ pc = "aggregate" /\ pc' = "done"
        /\ NoBlockers /\ Of("host_fingerprint") = {preflight}
        /\ UNCHANGED <<preflight, scenario, attempt, steps, rung, files, repeats,
                       decision, selected>>
    BY <1>2 DEF AggregateAll, ladder, results
  <2>2. TypeInv'
    BY <2>1 DEF TypeInv
  <2>3. FilesInv' /\ CloseInv'
    BY <2>1 DEF FilesInv, CloseInv
  <2>4. RepeatsInv' /\ StopLosesNothing' /\ ReportWhole'
    BY <2>1, SameRepeats
  <2>5. DecisionInv'
    BY <2>1 DEF DecisionInv, ReferenceSustained
  <2>6. SelectedInv'
    BY <2>1 DEF SelectedInv
  <2>7. QED
    BY <2>2, <2>3, <2>4, <2>5, <2>6
<1>3. QED
  BY <1>1, <1>2

LEMMA NextIInv ==
  ASSUME IInv, [Next]_vars
  PROVE  IInv'
<1> USE DEF Next
<1>1. CASE Preflight
  BY <1>1, PreflightIInv
<1>2. CASE StartAttempt
  BY <1>2, StartAttemptIInv
<1>3. CASE StartRepeat
  BY <1>3, StartRepeatIInv
<1>4. CASE RunAbba
  BY <1>4, RunAbbaIInv
<1>5. CASE SamplerFails
  BY <1>5, FailIInv DEF SamplerFails
<1>6. CASE ReportStep
  BY <1>6, ReportStepIInv
<1>7. CASE FinalReport
  BY <1>7, FinalReportIInv
<1>8. CASE Decide
  BY <1>8, DecideIInv
<1>9. CASE Select
  BY <1>9, SelectIInv
<1>10. CASE Extend
  BY <1>10, ExtendIInv
<1>11. CASE Refuse
  BY <1>11, FailIInv DEF Refuse
<1>12. CASE AggregateAll
  BY <1>12, AggregateAllIInv
<1>13. CASE MachineChanges
  BY <1>13, StaysIInv DEF MachineChanges
<1>14. CASE HeadMoves
  BY <1>14, StaysIInv DEF HeadMoves
<1>15. CASE HeadReturns
  BY <1>15, StaysIInv DEF HeadReturns
<1>16. CASE UNCHANGED vars
  BY <1>16, StutterIInv
<1>17. QED
  BY <1>1, <1>2, <1>3, <1>4, <1>5, <1>6, <1>7, <1>8, <1>9, <1>10, <1>11, <1>12, <1>13,
     <1>14, <1>15, <1>16

LEMMA SpecIInv == Spec => []IInv
<1>1. Init => IInv
  BY InitIInv
<1>2. IInv /\ [Next]_vars => IInv'
  BY NextIInv
<1>3. QED
  BY <1>1, <1>2, PTL DEF Spec

-----------------------------------------------------------------------------
(* What the images were built from.                                        *)

(* The images of an attempt whose manifest names commit c: none was built
   from another commit while HEAD was at c, unless HEAD has gone back since. *)
BuiltWhileNamed(c, images) ==
  /\ c \in Nat /\ c <= commits
  /\ \A image \in images :
       /\ image.at \in Nat /\ image.at <= undone
       /\ image.at < undone \/ (c = head => image.commit = c)

SourceInv ==
  /\ head \in Nat /\ commits \in Nat /\ undone \in Nat /\ head <= commits
  /\ BuiltWhileNamed(commit, built)
  /\ \A i \in DOMAIN selected :
       BuiltWhileNamed(selected[i].source_commit, selected[i].built)
  /\ FromOneSource

(* A new commit is named by no manifest yet, and all images are from before
   HEAD went back. *)
LEMMA HeadKeepsImages ==
  ASSUME SourceInv, NEW c, NEW images, BuiltWhileNamed(c, images),
         \/ head' = commits + 1 /\ commits' = commits + 1 /\ undone' = undone
         \/ undone' = undone + 1 /\ commits' = commits
  PROVE  /\ c \in Nat /\ c <= commits'
         /\ \A image \in images :
              /\ image.at \in Nat /\ image.at <= undone'
              /\ image.at < undone' \/ (c = head' => image.commit = c)
<1>1. c \in Nat /\ c <= commits /\ commits \in Nat /\ undone \in Nat
  BY DEF SourceInv, BuiltWhileNamed
<1>2. c <= commits'
  BY <1>1
<1>3. ASSUME NEW image \in images
      PROVE  /\ image.at \in Nat /\ image.at <= undone'
             /\ image.at < undone' \/ (c = head' => image.commit = c)
  <2>1. image.at \in Nat /\ image.at <= undone
    BY DEF BuiltWhileNamed
  <2>2. image.at < undone \/ (c = head => image.commit = c)
    BY DEF BuiltWhileNamed
  <2>3. CASE undone' = undone + 1 /\ commits' = commits
    BY <1>1, <2>1, <2>3
  <2>4. CASE head' = commits + 1 /\ commits' = commits + 1 /\ undone' = undone
    <3>1. c # head'
      BY <1>1, <2>4
    <3>2. QED
      BY <2>1, <2>4, <3>1
  <2>5. QED
    BY <2>3, <2>4
<1>4. QED
  BY <1>1, <1>2, <1>3

LEMMA HeadSourceInv ==
  ASSUME SourceInv, HeadMoves \/ HeadReturns
  PROVE  SourceInv'
<1>1. /\ UNCHANGED <<pc, commit, built, selected>> /\ ~Over
      /\ \/ head' = commits + 1 /\ commits' = commits + 1 /\ undone' = undone
         \/ head' \in 0..commits /\ undone' = undone + 1 /\ commits' = commits
  BY DEF HeadMoves, HeadReturns, Stays, source
<1>2. /\ head' \in Nat /\ commits' \in Nat /\ undone' \in Nat /\ head' <= commits'
  BY <1>1 DEF SourceInv
<1>3. BuiltWhileNamed(commit, built)'
  BY <1>1, HeadKeepsImages DEF SourceInv, BuiltWhileNamed
<1>4. ASSUME NEW i \in DOMAIN selected
      PROVE  BuiltWhileNamed(selected[i].source_commit, selected[i].built)'
  <2>1. BuiltWhileNamed(selected[i].source_commit, selected[i].built)
    BY DEF SourceInv
  <2>2. \/ head' = commits + 1 /\ commits' = commits + 1 /\ undone' = undone
        \/ undone' = undone + 1 /\ commits' = commits
    BY <1>1
  <2>3. selected' = selected
    BY <1>1
  <2>4. QED
    BY <2>1, <2>2, <2>3, HeadKeepsImages DEF BuiltWhileNamed
<1>5. FromOneSource'
  BY <1>1 DEF FromOneSource, Over
<1>6. QED
  BY <1>1, <1>2, <1>3, <1>4, <1>5 DEF SourceInv

(* The steps that leave git alone, and what they do to the images. *)
LEMMA ScriptSourceInv ==
  ASSUME SourceInv, UNCHANGED git,
         FromOneSource',
         BuiltWhileNamed(commit, built) => BuiltWhileNamed(commit', built'),
         \/ selected' = <<>>
         \/ selected' = selected
         \/ IsSequence(selected) /\ selected' = Append(selected, Summary)
  PROVE  SourceInv'
<1>1. UNCHANGED <<head, commits, undone>>
  BY DEF git
<1>2. BuiltWhileNamed(commit, built)'
  BY <1>1 DEF SourceInv, BuiltWhileNamed
<1>3. ASSUME NEW i \in DOMAIN selected'
      PROVE  BuiltWhileNamed(selected'[i].source_commit, selected'[i].built)
  <2>1. CASE selected' = <<>>
    BY <2>1
  <2>2. CASE selected' = selected
    BY <2>2 DEF SourceInv
  <2>3. CASE IsSequence(selected) /\ selected' = Append(selected, Summary)
    <3>1. /\ Len(selected) \in Nat /\ DOMAIN selected = 1..Len(selected)
          /\ IsSequence(selected') /\ Len(selected') = Len(selected) + 1
          /\ selected'[Len(selected) + 1] = Summary
          /\ \A k \in 1..Len(selected) : selected'[k] = selected[k]
      BY <2>3, SequenceFacts, AppendIsSequence
    <3>2. DOMAIN selected' = 1..Len(selected')
      BY <3>1, SequenceFacts
    <3>3. CASE i \in 1..Len(selected)
      BY <3>1, <3>3 DEF SourceInv
    <3>4. CASE i = Len(selected) + 1
      <4>1. Summary.source_commit = commit /\ Summary.built = built
        BY DEF Summary
      <4>2. BuiltWhileNamed(commit, built)
        BY DEF SourceInv
      <4>3. QED
        BY <3>1, <3>4, <4>1, <4>2
    <3>5. QED
      BY <3>1, <3>2, <3>3, <3>4
  <2>4. QED
    BY <2>1, <2>2, <2>3
<1>4. QED
  BY <1>1, <1>2, <1>3 DEF SourceInv, BuiltWhileNamed

LEMMA InitSourceInv ==
  ASSUME Init
  PROVE  SourceInv
  BY DEF Init, SourceInv, BuiltWhileNamed, FromOneSource

LEMMA FailSourceInv ==
  ASSUME SourceInv, NEW why, Fail(why)
  PROVE  SourceInv'
<1>1. UNCHANGED git /\ selected' = <<>> /\ commit' = 0 /\ built' = {} /\ pc' = "failed"
  BY DEF Fail, env
<1>2. BuiltWhileNamed(commit', built')
  BY <1>1 DEF SourceInv, BuiltWhileNamed
<1>3. QED
  BY <1>1, <1>2, ScriptSourceInv DEF FromOneSource

(* A benchmark that ends well compared the commits of all its attempts. *)
LEMMA AggregateAllSourceInv ==
  ASSUME IInv, SourceInv, AggregateAll
  PROVE  SourceInv'
<1>1. CASE Fail("blockers") \/ Fail("fingerprint")
  BY <1>1, FailSourceInv
<1>2. CASE ~(Fail("blockers") \/ Fail("fingerprint"))
  <2>1. /\ NoBlockers /\ Of("host_fingerprint") = {preflight}
        /\ UNCHANGED <<git, commit, built, selected>>
    BY <1>2 DEF AggregateAll, env, source
  <2>2. \A i, j \in DOMAIN selected : selected[i].source_commit = selected[j].source_commit
    BY <2>1, NoBlockersFacts
  <2>3. ASSUME NEW i \in DOMAIN selected, NEW j \in DOMAIN selected,
               NEW image \in selected[j].built, selected[i].source_commit = head
        PROVE  image.commit = head \/ image.at < undone
    BY <2>2, <2>3 DEF SourceInv, BuiltWhileNamed
  <2>4. FromOneSource'
    BY <2>1, <2>3 DEF FromOneSource, git
  <2>5. QED
    BY <2>1, <2>4, ScriptSourceInv DEF SourceInv
<1>3. QED
  BY <1>1, <1>2

LEMMA StartAttemptSourceInv ==
  ASSUME SourceInv, StartAttempt
  PROVE  SourceInv'
<1>1. /\ UNCHANGED <<git, selected>> /\ commit' = head /\ built' = {} /\ pc' = "host"
  BY DEF StartAttempt, env
<1>2. BuiltWhileNamed(commit', built')
  BY <1>1 DEF SourceInv, BuiltWhileNamed
<1>3. QED
  BY <1>1, <1>2, ScriptSourceInv DEF FromOneSource

LEMMA StartRepeatSourceInv ==
  ASSUME SourceInv, StartRepeat
  PROVE  SourceInv'
<1>1. CASE Fail("host")
  BY <1>1, FailSourceInv
<1>2. CASE ~Fail("host")
  <2>1. /\ UNCHANGED <<git, commit, selected>> /\ pc' = "measure"
        /\ built' = built \union {[commit |-> head, at |-> undone]}
    BY <1>2 DEF StartRepeat, env
  <2>2. BuiltWhileNamed(commit', built')
    BY <2>1 DEF SourceInv, BuiltWhileNamed
  <2>3. QED
    BY <2>1, <2>2, ScriptSourceInv DEF FromOneSource
<1>3. QED
  BY <1>1, <1>2

LEMMA SelectSourceInv ==
  ASSUME IInv, SourceInv, Select
  PROVE  SourceInv'
<1>1. /\ UNCHANGED git /\ selected' = Append(selected, Summary)
      /\ commit' = 0 /\ built' = {} /\ pc' # "done"
  BY DEF Select, env
<1>2. BuiltWhileNamed(commit', built')
  BY <1>1 DEF SourceInv, BuiltWhileNamed
<1>3. IsSequence(selected)
  BY DEF TypeInv
<1>4. QED
  BY <1>1, <1>2, <1>3, ScriptSourceInv DEF FromOneSource

(* The other steps of the scripts, and the machine, leave all of it alone. *)
LEMMA QuietSourceInv ==
  ASSUME SourceInv, UNCHANGED <<git, source, selected>>, pc' = "done" => pc = "done"
  PROVE  SourceInv'
<1>1. UNCHANGED <<head, commits, undone, commit, built, selected>>
  BY DEF git, source
<1>2. FromOneSource'
  BY <1>1 DEF FromOneSource, SourceInv
<1>3. QED
  BY <1>1, <1>2 DEF SourceInv, BuiltWhileNamed

LEMMA NextSourceInv ==
  ASSUME IInv, SourceInv, [Next]_vars
  PROVE  SourceInv'
<1> DEFINE Quiet == UNCHANGED <<git, source, selected>> /\ (pc' = "done" => pc = "done")
<1>1. CASE Preflight
  <2>1. Fail("preflight") \/ Quiet
    BY <1>1 DEF Preflight, env
  <2>2. QED
    BY <2>1, FailSourceInv, QuietSourceInv
<1>2. CASE StartAttempt
  BY <1>2, StartAttemptSourceInv
<1>3. CASE StartRepeat
  BY <1>3, StartRepeatSourceInv
<1>4. CASE RunAbba
  <2>1. Fail("loadgen") \/ Quiet
    BY <1>4 DEF RunAbba, env
  <2>2. QED
    BY <2>1, FailSourceInv, QuietSourceInv
<1>5. CASE SamplerFails
  BY <1>5, FailSourceInv DEF SamplerFails
<1>6. CASE ReportStep
  <2>1. Fail("capacity") \/ Quiet
    BY <1>6 DEF ReportStep, env
  <2>2. QED
    BY <2>1, FailSourceInv, QuietSourceInv
<1>7. CASE FinalReport
  <2>1. Fail("report") \/ Quiet
    BY <1>7 DEF FinalReport, CloseRepeat, env
  <2>2. QED
    BY <2>1, FailSourceInv, QuietSourceInv
<1>8. CASE Decide
  <2>1. Fail("decision") \/ Quiet
    BY <1>8 DEF Decide, env
  <2>2. QED
    BY <2>1, FailSourceInv, QuietSourceInv
<1>9. CASE Select
  BY <1>9, SelectSourceInv
<1>10. CASE Extend
  <2>1. Quiet
    BY <1>10 DEF Extend, env, results
  <2>2. QED
    BY <2>1, QuietSourceInv
<1>11. CASE Refuse
  BY <1>11, FailSourceInv DEF Refuse
<1>12. CASE AggregateAll
  BY <1>12, AggregateAllSourceInv
<1>13. CASE MachineChanges
  <2>1. Quiet
    BY <1>13 DEF MachineChanges, Stays
  <2>2. QED
    BY <2>1, QuietSourceInv
<1>14. CASE HeadMoves \/ HeadReturns
  BY <1>14, HeadSourceInv
<1>15. CASE UNCHANGED vars
  <2>1. Quiet
    BY <1>15 DEF vars, env
  <2>2. QED
    BY <2>1, QuietSourceInv
<1>16. QED
  BY <1>1, <1>2, <1>3, <1>4, <1>5, <1>6, <1>7, <1>8, <1>9, <1>10, <1>11, <1>12, <1>13,
     <1>14, <1>15 DEF Next

-----------------------------------------------------------------------------
(* The theorems.                                                           *)

(* run-ab.sh ends a staircase before its top only when both architectures
   have their boundary in that repeat's capacity, whatever reports it made,
   read again or lost on the way. *)
THEOREM EarlyStopIsFree == Spec => []StopLosesNothing
<1>1. IInv => StopLosesNothing
  OBVIOUS
<1>2. QED
  BY <1>1, SpecIInv, PTL

(* No finished repeat keeps a capacity.json of a stale report: each of its
   two capacities has a point for exactly the steps that were run. *)
THEOREM CapacityCoversItsSteps == Spec => []ReportWhole
<1>1. IInv => ReportWhole
  OBVIOUS
<1>2. QED
  BY <1>1, SpecIInv, PTL

(* The load that decision.py compares the architectures at has a point in
   every repeat and lies below every failure of either. *)
THEOREM ComparedWhereSustained == Spec => []ReferenceSustained
<1>1. IInv => ReferenceSustained
  BY DEF DecisionInv
<1>2. QED
  BY <1>1, SpecIInv, PTL

(* While HEAD is at the commit that a benchmark which succeeded names, every
   image of every repeat of its scenarios was built from that commit, unless
   HEAD has gone back after that build; although the aggregate compares only
   what HEAD was as each attempt began. *)
THEOREM BenchmarkOfItsCommit == Spec => []FromOneSource
<1>1. Init => SourceInv
  BY InitSourceInv
<1>2. IInv /\ SourceInv /\ [Next]_vars => SourceInv'
  BY NextSourceInv
<1>3. SourceInv => FromOneSource
  BY DEF SourceInv
<1>4. QED
  BY <1>1, <1>2, <1>3, SpecIInv, PTL DEF Spec

(* Within a scenario the steps change only in Extend, which asks for a
   missing boundary. *)
LEMMA ExtendsForBoundary ==
  ASSUME IInv, [Next]_vars, scenario' = scenario, steps' # steps
  PROVE  /\ \E i \in DOMAIN repeats, arch \in Archs :
              repeats[i].capacity[arch].first_failed = NoStep
         /\ IsPrefix(steps, steps') /\ StepsValid(steps', Scenarios[scenario].ceiling)
         /\ attempt' = attempt + 1 /\ attempt' <= MaxAttempts
<1>1. Extend
  <2>1. \A why : ~Fail(why)
    BY DEF Fail
  <2>2. ~Select
    <3>1. scenario \in Nat
      BY ScenarioFacts DEF TypeInv
    <3>2. QED
      BY <3>1 DEF Select
  <2>3. /\ ~Preflight /\ ~StartAttempt /\ ~StartRepeat /\ ~RunAbba /\ ~SamplerFails
        /\ ~ReportStep /\ ~FinalReport /\ ~Decide /\ ~Refuse /\ ~AggregateAll
    <3>1. ~Preflight
      BY <2>1 DEF Preflight
    <3>2. ~StartAttempt
      BY DEF StartAttempt
    <3>3. ~StartRepeat
      BY <2>1 DEF StartRepeat
    <3>4. ~RunAbba
      BY <2>1 DEF RunAbba
    <3>5. ~SamplerFails
      BY <2>1 DEF SamplerFails
    <3>6. ~ReportStep
      BY <2>1 DEF ReportStep
    <3>7. ~FinalReport
      BY <2>1 DEF FinalReport, CloseRepeat
    <3>8. ~Decide
      BY <2>1 DEF Decide
    <3>9. ~Refuse
      BY <2>1 DEF Refuse
    <3>10. ~AggregateAll
      BY <2>1 DEF AggregateAll
    <3>11. QED
      BY <3>1, <3>2, <3>3, <3>4, <3>5, <3>6, <3>7, <3>8, <3>9, <3>10
  <2>4. ~MachineChanges /\ ~HeadMoves /\ ~HeadReturns
    BY DEF MachineChanges, HeadMoves, HeadReturns, Stays
  <2>5. ~(UNCHANGED vars)
    BY DEF vars
  <2>6. QED
    BY <2>2, <2>3, <2>4, <2>5 DEF Next
<1>2. \E i \in DOMAIN repeats, arch \in Archs :
        repeats[i].capacity[arch].first_failed = NoStep
  BY <1>1 DEF Extend, MayExtend, BoundariesComplete, Boundaries
<1>3. IsPrefix(steps, steps') /\ StepsValid(steps', Scenarios[scenario].ceiling)
  BY <1>1, ExtendStepsFacts DEF Extend, MayExtend
<1>4. attempt' = attempt + 1 /\ attempt' <= MaxAttempts
  <2>1. attempt \in Nat /\ MaxAttempts \in Nat
    BY InputAssumption DEF TypeInv
  <2>2. attempt < MaxAttempts /\ attempt' = attempt + 1
    BY <1>1 DEF Extend, MayExtend
  <2>3. QED
    BY <2>1, <2>2
<1>5. QED
  BY <1>2, <1>3, <1>4

(* A scenario is never measured again because its decision was not the one
   hoped for: only for a boundary that its last attempt missed, with the
   same steps and more above them, within its ceiling and its attempts. *)
THEOREM NeverRetriedForTheResult == Spec => ExtendsOnlyForBoundary
<1> DEFINE A == scenario' = scenario /\ steps' # steps =>
                  /\ \E i \in DOMAIN repeats, arch \in Archs :
                       repeats[i].capacity[arch].first_failed = NoStep
                  /\ IsPrefix(steps, steps')
                  /\ StepsValid(steps', Scenarios[scenario].ceiling)
                  /\ attempt' = attempt + 1 /\ attempt' <= MaxAttempts
<1>1. IInv /\ [Next]_vars => [A]_vars
  BY ExtendsForBoundary
<1>2. QED
  BY <1>1, SpecIInv, PTL DEF Spec, ExtendsOnlyForBoundary
=============================================================================
