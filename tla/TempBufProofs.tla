---------------------------- MODULE TempBufProofs ----------------------------
(***************************************************************************)
(* What reserve_temp_buf guarantees for every width of size_t, every first *)
(* capacity and every sequence of requests.                                *)
(***************************************************************************)
EXTENDS TempBuf, WellFoundedInduction, TLAPS

(* Inside the loop the candidate is either the storage the buffer has, too
   small, or at least twice that; so what replaces it pays for everything
   it was grown from. *)
LoopInv ==
  pc = "grow" =>
    /\ current < required
    /\ capacity > 0
    /\ ~saturated => \/ capacity = current
                     \/ 2 * current <= capacity

IInv == TypeOK /\ LoopInv /\ Fits /\ PoolBounded

LEMMA InitIInv == Init => IInv
<1> SUFFICES ASSUME Init
             PROVE  IInv
  OBVIOUS
<1>1. 0 \in 0..MaxSize /\ 0 \in 0..MaxRequest /\ 0 \in Nat
  BY CapacityAssumption, MaxRequestAssumption
<1>2. TypeOK
  BY <1>1, Zenon DEF Init, TypeOK
<1>3. LoopInv /\ Fits /\ PoolBounded
  BY DEF Init, LoopInv, Fits, PoolBounded
<1>4. QED
  BY <1>2, <1>3 DEF IInv

LEMMA NextIInv == IInv /\ [Next]_vars => IInv'
<1> SUFFICES ASSUME IInv, [Next]_vars
             PROVE  IInv'
  OBVIOUS
<1> USE CapacityAssumption, MaxRequestAssumption
    DEF IInv, TypeOK, LoopInv, Fits, PoolBounded
<1>1. ASSUME NEW n \in 0..MaxRequest, Reuse(n)
      PROVE  IInv'
  BY <1>1 DEF Reuse
<1>2. ASSUME NEW n \in 0..MaxRequest, StartGrowing(n)
      PROVE  IInv'
  BY <1>2 DEF StartGrowing
<1>3. CASE Double
  BY <1>3 DEF Double
<1>4. CASE Saturate
  BY <1>4 DEF Saturate
<1>5. CASE Allocate
  BY <1>5 DEF Allocate
<1>6. CASE AllocationFails
  BY <1>6 DEF AllocationFails
<1>7. CASE UNCHANGED vars
  BY <1>7 DEF vars
<1>8. QED
  BY <1>1, <1>2, <1>3, <1>4, <1>5, <1>6, <1>7 DEF Next

(* The reserved storage always holds what the caller is about to copy, and
   the capacity never exceeds what a size_t can count. *)
THEOREM ReserveFits == Spec => [](TypeOK /\ Fits)
<1>1. IInv => TypeOK /\ Fits
  BY DEF IInv
<1>2. QED
  BY InitIInv, NextIInv, <1>1, PTL DEF Spec

(* Until a doubling would overflow, everything a recycled buffer ever took
   from the pool is at most twice what it holds. *)
THEOREM PoolStaysBounded == Spec => []PoolBounded
<1>1. IInv => PoolBounded
  BY DEF IInv
<1>2. QED
  BY InitIInv, NextIInv, <1>1, PTL DEF Spec

-----------------------------------------------------------------------------
(* What the loop answers: the capacity that the other modules compute. *)

(* A set of numbers that is not empty has a least element. *)
LEMMA LeastElement ==
  ASSUME NEW C \in SUBSET Nat, C # {}
  PROVE  \E c \in C : \A d \in C : c <= d
<1> DEFINE R == {ss \in Nat \X Nat : ss[1] < ss[2]}
<1>1. IsWellFoundedOn(R, Nat)
  BY NatLessThanWellFounded DEF OpToRel
<1>2. \A c, d \in Nat : d < c => <<d, c>> \in R
  OBVIOUS
<1> HIDE DEF R
<1>3. PICK c \in C : \A d \in C : ~ (<<d, c>> \in R)
  BY <1>1, WFMin
<1>4. \A d \in C : ~ (d < c)
  BY <1>2, <1>3
<1>5. QED
  BY <1>4

(* The powers of two as a function, which the provers take as it is. *)
Power == [k \in 0..Width |-> 2^k]

LEMMA PowerFacts ==
  /\ Power \in [0..Width -> Nat]
  /\ Power[0] = 1
  /\ \A k \in 0..Width : k + 1 \in 0..Width => Power[k + 1] = 2 * Power[k]
  /\ MaxSize < Power[Width]
<1>1. 0 \in 0..Width /\ Width \in 0..Width
  BY CapacityAssumption
<1>2. \A k \in 0..Width : Power[k] = 2^k
  BY DEF Power
<1>3. Power \in [0..Width -> Nat]
  BY PowersOfTwo DEF Power
<1>4. Power[0] = 1
  BY <1>1, <1>2, PowersOfTwo
<1>5. ASSUME NEW k \in 0..Width, k + 1 \in 0..Width
      PROVE  Power[k + 1] = 2 * Power[k]
  <2>1. Power[k + 1] = 2^(k + 1) /\ Power[k] = 2^k
    BY <1>2, <1>5
  <2>2. 2^(k + 1) = 2 * 2^k
    BY PowersOfTwo
  <2>3. QED
    BY ONLY <2>1, <2>2
<1>6. MaxSize < Power[Width]
  BY <1>1, <1>2, WidthAssumption
<1>7. QED
  BY <1>3, <1>4, <1>5, <1>6

LEMMA LadderByPowers ==
  ASSUME NEW base
  PROVE  Ladder(base) =
           {c \in base..MaxSize : \E k \in 0..Width : c = base * Power[k]}
<1>1. \A k \in 0..Width : Power[k] = 2^k
  BY DEF Power
<1>2. ASSUME NEW c
      PROVE  (\E k \in 0..Width : c = base * 2^k)
             <=> (\E k \in 0..Width : c = base * Power[k])
  BY <1>1, Zenon
<1>3. QED
  BY <1>2, Zenon DEF Ladder

(* The powers grow. *)
LEMMA PowersGrow ==
  ASSUME NEW i \in 0..Width, NEW j \in 0..Width, i <= j
  PROVE  1 <= Power[i] /\ Power[i] <= Power[j]
<1> DEFINE Smaller == {k \in 0..Width : Power[k] < 1}
           Drops   == {k \in i..Width : Power[k] < Power[i]}
<1> USE CapacityAssumption
<1>1. Smaller = {}
  <2>1. SUFFICES ASSUME Smaller # {}
                 PROVE  FALSE
    OBVIOUS
  <2>2. Smaller \in SUBSET Nat
    OBVIOUS
  <2>3. PICK k \in Smaller : \A d \in Smaller : k <= d
    BY <2>1, <2>2, LeastElement
  <2>4. k # 0
    BY PowerFacts
  <2>5. k - 1 \in 0..Width /\ k - 1 \notin Smaller
    BY <2>3, <2>4
  <2>6. QED
    BY <2>5, PowerFacts
<1>2. Drops = {}
  <2>1. SUFFICES ASSUME Drops # {}
                 PROVE  FALSE
    OBVIOUS
  <2>2. Drops \in SUBSET Nat
    OBVIOUS
  <2>3. PICK k \in Drops : \A d \in Drops : k <= d
    BY <2>1, <2>2, LeastElement
  <2>4. k # i
    BY PowerFacts
  <2>5. k - 1 \in i..Width /\ k - 1 \notin Drops
    BY <2>3, <2>4
  <2>6. Power[k] = 2 * Power[k - 1] /\ Power[k - 1] \in Nat /\ Power[i] \in Nat
    BY <2>5, PowerFacts
  <2>7. Power[k] < Power[i] /\ ~(Power[k - 1] < Power[i])
    BY <2>3, <2>5
  <2>8. QED
    BY ONLY <2>6, <2>7
<1>3. i \notin Smaller /\ j \notin Drops
  BY <1>1, <1>2, Zenon
<1>4. ~ (Power[i] < 1) /\ ~ (Power[j] < Power[i])
  BY <1>3
<1>5. Power[i] \in Nat /\ Power[j] \in Nat
  BY PowerFacts
<1>6. QED
  BY ONLY <1>4, <1>5

(* Where the ladder of a request begins. *)
Base == IF current = 0 THEN InitialCapacity ELSE current

OnRung == \E k \in 0..Width : capacity = Base * 2^k

(* Inside the loop every rung below the candidate is too small, and so is
   every rung once the overflow guard has given up the ladder. *)
ClimbInv ==
  pc = "grow" =>
    /\ before = current
    /\ \/ OnRung /\ \A c \in Ladder(Base) : c < capacity => c < required
       \/ capacity = required /\ \A c \in Ladder(Base) : c < required

AnswerInv == pc = "idle" => current = Grown(before, required)

(* One rung up: the next power, within the range while the rung is. *)
LEMMA NextRung ==
  ASSUME TypeOK, OnRung, capacity < required, pc = "grow", current < required
  PROVE  \E k \in 0..Width : /\ k + 1 \in 0..Width
                             /\ capacity = Base * Power[k]
                             /\ 2 * capacity = Base * Power[k + 1]
<1>1. PICK k \in 0..Width : capacity = Base * Power[k]
  BY DEF OnRung, Power
<1>2. Base \in Nat /\ Base >= 1 /\ capacity \in Nat /\ capacity <= MaxSize
  BY CapacityAssumption DEF Base, TypeOK
<1>3. Width \in Nat /\ Width \in 0..Width /\ MaxSize \in Nat
  BY CapacityAssumption
<1>4. Power[k] \in Nat /\ Power[Width] \in Nat
  BY <1>3, PowerFacts
<1>5. MaxSize < Power[Width]
  BY PowerFacts
<1>6. k # Width
  <2>1. SUFFICES ASSUME k = Width
                 PROVE  FALSE
    OBVIOUS
  <2>2. capacity = Base * Power[Width]
    BY <1>1, <2>1
  <2>3. ASSUME NEW x \in Nat, NEW y \in Nat, x >= 1
        PROVE  y <= x * y
    BY <2>3
  <2>4. Power[Width] <= capacity
    BY <1>2, <1>4, <2>2, <2>3
  <2>5. QED
    BY ONLY <1>2, <1>3, <1>4, <1>5, <2>4
<1>7. k + 1 \in 0..Width
  BY <1>3, <1>6
<1>8. Power[k + 1] = 2 * Power[k]
  BY <1>7, PowerFacts
<1>9. 2 * capacity = Base * Power[k + 1]
  BY ONLY <1>1, <1>2, <1>4, <1>8
<1>10. QED
  BY <1>1, <1>7, <1>9

(* Between a rung and the next one there is none. *)
LEMMA NoRungBetween ==
  ASSUME NEW base \in Nat, NEW k \in 0..Width, k + 1 \in 0..Width,
         NEW c \in Ladder(base), c < base * Power[k + 1]
  PROVE  c <= base * Power[k]
<1>1. PICK j \in 0..Width : c = base * Power[j]
  BY LadderByPowers
<1>2. Power[j] \in Nat /\ Power[k] \in Nat /\ Power[k + 1] \in Nat
  BY PowerFacts
<1>3. \A x, y, z \in Nat : y <= z => x * y <= x * z
  OBVIOUS
<1>4. CASE j <= k
  <2>1. Power[j] <= Power[k]
    BY <1>4, PowersGrow
  <2>2. QED
    BY <1>1, <1>2, <1>3, <2>1
<1>5. CASE k + 1 <= j
  <2>1. Power[k + 1] <= Power[j]
    BY <1>5, PowersGrow
  <2>2. base * Power[k + 1] <= c
    BY <1>1, <1>2, <1>3, <2>1
  <2>3. c \in Int /\ base * Power[k + 1] \in Int
    BY <1>1, <1>2
  <2>4. QED
    BY <2>2, <2>3
<1>6. QED
  BY <1>4, <1>5, CapacityAssumption

(* A request that is larger than the buffer is answered by the smallest
   rung that holds it. *)
LEMMA SmallestRung ==
  ASSUME TypeOK, current < required,
         NEW k \in 0..Width, capacity = Base * 2^k, capacity >= required,
         \A c \in Ladder(Base) : c < capacity => c < required
  PROVE  capacity = Grown(current, required)
<1> DEFINE rungs == {c \in Ladder(Base) : c >= required}
<1>1. /\ current \in Nat /\ required \in Nat /\ capacity \in 0..MaxSize
      /\ MaxSize \in Nat /\ Base \in Nat /\ Base >= 1
  BY CapacityAssumption, MaxRequestAssumption DEF TypeOK, Base
<1>2. capacity \in Ladder(Base)
  <2>1. Power[0] = 1 /\ Power[k] = 2^k /\ Power[k] \in Nat /\ Power[0] <= Power[k]
    <3>1. 0 \in 0..Width /\ 0 <= k
      BY CapacityAssumption
    <3>2. QED
      BY <3>1, PowerFacts, PowersGrow DEF Power
  <2>2. Base <= Base * Power[k]
    BY <1>1, <2>1
  <2>3. capacity \in Base..MaxSize
    BY <1>1, <2>1, <2>2
  <2>4. QED
    BY <2>3 DEF Ladder
<1>3. \A c \in Ladder(Base) : c \in Int
  BY <1>1, LadderByPowers
<1>4. capacity \in rungs /\ \A d \in rungs : capacity <= d
  BY <1>1, <1>2, <1>3
<1>5. \A c \in rungs : (\A d \in rungs : c <= d) => c = capacity
  BY <1>1, <1>3, <1>4
<1>6. (CHOOSE c \in rungs : \A d \in rungs : c <= d) = capacity
  BY <1>4, <1>5
<1>7. Grown(current, required)
        = IF rungs = {} THEN required
          ELSE CHOOSE c \in rungs : \A d \in rungs : c <= d
  BY <1>1 DEF Grown, Base
<1>8. QED
  BY <1>4, <1>6, <1>7

LEMMA InitClimb == Init => ClimbInv /\ AnswerInv
<1> SUFFICES ASSUME Init
             PROVE  ClimbInv /\ AnswerInv
  OBVIOUS
<1>1. Grown(before, required) = current
  BY DEF Init, Grown
<1>2. QED
  BY <1>1 DEF Init, ClimbInv, AnswerInv

LEMMA StartClimb ==
  ASSUME TypeOK, NEW n \in 0..MaxRequest, StartGrowing(n)
  PROVE  ClimbInv'
<1> USE CapacityAssumption, MaxRequestAssumption DEF TypeOK
<1>1. current' = current /\ before' = current' /\ capacity' = Base'
  BY DEF StartGrowing, Base
<1>2. Base' \in Nat /\ 0 \in 0..Width
  BY <1>1 DEF StartGrowing, Base
<1>3. OnRung'
  <2>1. \A x \in Nat : x = x * 1
    OBVIOUS
  <2>2. 2^0 = 1
    BY PowersOfTwo, Zenon
  <2>3. capacity' = Base' * 2^0
    BY <1>1, <1>2, <2>1, <2>2, Zenon
  <2>4. QED
    BY <1>2, <2>3 DEF OnRung
<1>4. \A c \in Ladder(Base') : ~ (c < capacity')
  BY <1>1, <1>2, LadderByPowers
<1>5. QED
  BY <1>1, <1>3, <1>4 DEF ClimbInv

LEMMA DoubleClimb ==
  ASSUME IInv, ClimbInv, Double
  PROVE  ClimbInv'
<1>1. /\ pc = "grow" /\ pc' = pc /\ capacity < required /\ current < required
      /\ capacity' = 2 * capacity /\ before = current
      /\ current' = current /\ required' = required /\ before' = before
  BY DEF Double, IInv, LoopInv, ClimbInv
<1>2. TypeOK /\ Base' = Base
  BY <1>1 DEF IInv, Base
<1>3. capacity \in Nat /\ required \in Nat /\ Base \in Nat
  BY <1>2, CapacityAssumption, MaxRequestAssumption DEF TypeOK, Base
<1>4. OnRung
  BY <1>1, <1>3 DEF ClimbInv
<1>5. PICK k \in 0..Width : /\ k + 1 \in 0..Width
                            /\ capacity = Base * Power[k]
                            /\ 2 * capacity = Base * Power[k + 1]
  BY <1>1, <1>2, <1>4, NextRung
<1>6. OnRung'
  <2>1. Power[k + 1] = 2^(k + 1)
    BY <1>5 DEF Power
  <2>2. capacity' = Base' * 2^(k + 1)
    BY <1>1, <1>2, <1>5, <2>1
  <2>3. QED
    BY <1>5, <2>2 DEF OnRung
<1>7. ASSUME NEW c \in Ladder(Base'), c < capacity'
      PROVE  c < required'
  <2>1. c <= capacity
    BY <1>1, <1>2, <1>3, <1>5, <1>7, NoRungBetween
  <2>2. c \in Int
    BY <1>2, <1>3, LadderByPowers, CapacityAssumption
  <2>3. QED
    BY <1>1, <1>3, <2>1, <2>2
<1>8. QED
  BY <1>1, <1>6, <1>7 DEF ClimbInv

LEMMA SaturateClimb ==
  ASSUME IInv, ClimbInv, Saturate
  PROVE  ClimbInv'
<1>1. /\ pc = "grow" /\ pc' = pc /\ capacity < required /\ current < required
      /\ capacity > MaxSize \div 2 /\ capacity' = required /\ before = current
      /\ current' = current /\ required' = required /\ before' = before
  BY DEF Saturate, IInv, LoopInv, ClimbInv
<1>2. TypeOK /\ Base' = Base
  BY <1>1 DEF IInv, Base
<1>3. /\ capacity \in Nat /\ required \in Nat /\ Base \in Nat /\ MaxSize \in Nat
  BY <1>2, CapacityAssumption, MaxRequestAssumption DEF TypeOK, Base
<1>4. OnRung
  BY <1>1, <1>3 DEF ClimbInv
<1>5. PICK k \in 0..Width : /\ k + 1 \in 0..Width
                            /\ capacity = Base * Power[k]
                            /\ 2 * capacity = Base * Power[k + 1]
  BY <1>1, <1>2, <1>4, NextRung
<1>6. ASSUME NEW c \in Ladder(Base')
      PROVE  c < required'
  <2>1. c \in Int /\ c <= MaxSize
    BY <1>2, <1>3, <1>6, LadderByPowers
  <2>2. MaxSize < 2 * capacity
    BY <1>1, <1>3
  <2>3. c < Base * Power[k + 1]
    BY <1>3, <1>5, <2>1, <2>2
  <2>4. c <= capacity
    BY <1>2, <1>3, <1>5, <2>3, NoRungBetween
  <2>5. QED
    BY <1>1, <1>3, <2>1, <2>4
<1>7. QED
  BY <1>1, <1>6 DEF ClimbInv

(* Where the loop ends, it has what Grown says. *)
LEMMA LoopResult ==
  ASSUME IInv, ClimbInv, pc = "grow", capacity >= required
  PROVE  capacity = Grown(before, required)
<1>1. TypeOK /\ current < required /\ before = current
  BY DEF IInv, LoopInv, ClimbInv
<1>2. CASE OnRung /\ \A c \in Ladder(Base) : c < capacity => c < required
  BY <1>1, <1>2, SmallestRung DEF OnRung
<1>3. CASE capacity = required /\ \A c \in Ladder(Base) : c < required
  <2>1. /\ current \in Nat /\ required \in Nat /\ Base \in Nat
        /\ \A c \in Ladder(Base) : c \in Int
    BY <1>1, LadderByPowers, CapacityAssumption, MaxRequestAssumption
    DEF TypeOK, Base
  <2>2. {c \in Ladder(Base) : c >= required} = {}
    BY <1>3, <2>1
  <2>3. Grown(current, required) = required
    BY <1>1, <2>1, <2>2 DEF Grown, Base
  <2>4. QED
    BY <1>1, <1>3, <2>3
<1>4. QED
  BY <1>2, <1>3 DEF ClimbInv

LEMMA NextClimb ==
  IInv /\ ClimbInv /\ AnswerInv /\ [Next]_vars => ClimbInv' /\ AnswerInv'
<1> SUFFICES ASSUME IInv, ClimbInv, AnswerInv, [Next]_vars
             PROVE  ClimbInv' /\ AnswerInv'
  OBVIOUS
<1>0. TypeOK
  BY DEF IInv
<1>1. ASSUME NEW n \in 0..MaxRequest, Reuse(n)
      PROVE  ClimbInv' /\ AnswerInv'
  <2>1. Grown(before', required') = current'
    BY <1>1 DEF Reuse, Grown
  <2>2. QED
    BY <1>1, <2>1 DEF Reuse, ClimbInv, AnswerInv
<1>2. ASSUME NEW n \in 0..MaxRequest, StartGrowing(n)
      PROVE  ClimbInv' /\ AnswerInv'
  BY <1>0, <1>2, StartClimb DEF StartGrowing, AnswerInv
<1>3. CASE Double
  BY <1>3, DoubleClimb DEF Double, AnswerInv
<1>4. CASE Saturate
  BY <1>4, SaturateClimb DEF Saturate, AnswerInv
<1>5. CASE Allocate
  BY <1>5, LoopResult DEF Allocate, ClimbInv, AnswerInv
<1>6. CASE AllocationFails
  BY <1>6 DEF AllocationFails, ClimbInv, AnswerInv
<1>7. CASE UNCHANGED vars
  BY <1>7 DEF vars, ClimbInv, AnswerInv, OnRung, Base
<1>8. QED
  BY <1>1, <1>2, <1>3, <1>4, <1>5, <1>6, <1>7 DEF Next

(* The doubling loop and its overflow guard (source lines 841-855) give the
   capacity that the models of both filters take for it: a request that is
   served leaves the storage it found, or the smallest rung of the ladder
   that holds what is required, or exactly that where no rung does.  It is
   what Answered says of the answer; that there is one is left to TLC. *)
THEOREM LoopComputesGrown == Spec => []AnswerInv
<1>1. IInv /\ ClimbInv /\ AnswerInv /\ [Next]_vars
        => (IInv /\ ClimbInv /\ AnswerInv)'
  BY NextIInv, NextClimb
<1>2. Init => IInv /\ ClimbInv /\ AnswerInv
  BY InitIInv, InitClimb
<1>3. QED
  BY <1>1, <1>2, PTL DEF Spec

Climbs ==
  pc = "grow" =>
    \/ pc' \in {"idle", "failed"}
    \/ /\ pc' = "grow" /\ required' = required
       /\ capacity < capacity' /\ capacity' <= MaxSize
       /\ 2 * capacity <= capacity' \/ capacity' = required

(* A turn of the loop ends it, or brings the candidate at least twice as
   far, or to the request itself: the loop cannot go round for ever, and it
   never wraps around in the range of size_t. *)
THEOREM LoopClimbs == Spec => [][Climbs]_vars
<1>1. IInv /\ [Next]_vars => [Climbs]_vars
  <2> SUFFICES ASSUME IInv, Next, pc = "grow"
               PROVE  Climbs
    BY DEF Climbs
  <2> USE CapacityAssumption, MaxRequestAssumption DEF IInv, TypeOK, LoopInv
  <2>1. CASE Double
    BY <2>1 DEF Double, Climbs
  <2>2. CASE Saturate
    BY <2>2 DEF Saturate, Climbs
  <2>3. CASE Allocate \/ AllocationFails
    BY <2>3 DEF Allocate, AllocationFails, Climbs
  <2>4. QED
    BY <2>1, <2>2, <2>3 DEF Next, Reuse, StartGrowing
<1>2. QED
  BY InitIInv, NextIInv, <1>1, PTL DEF Spec

=============================================================================
