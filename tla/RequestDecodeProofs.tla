------------------------ MODULE RequestDecodeProofs ------------------------
(***************************************************************************)
(* The base64 of grpc_web_base64.c (Q = 4) and of the small code that the  *)
(* runs use (Q = 2), and the request path for every body, every cutting of *)
(* it and every limit.                                                     *)
(*                                                                         *)
(* A good quartet behind a text without padding adds to the meaning of the *)
(* text what the decoder makes of it: MeaningAppends compares them unit by *)
(* unit.  From there the argument is one of bookkeeping.  TakenInv: what   *)
(* has been decoded is a valid beginning of the text, and padding in it is *)
(* its end.  MeaningInv: what has been passed on, what this call has       *)
(* decoded and what this turn has written are, one after the other, what   *)
(* that beginning means.  MarksInv: the last buffer ends the body.         *)
(*                                                                         *)
(* What has been written in a turn is bounded through the characters that  *)
(* have gone into it: the src_len ones of the turn and up to three that    *)
(* were pending before.  RoomInv states that bound; it needs ChainInv, so  *)
(* that the characters left to a turn are a number from zero on.           *)
(***************************************************************************)
EXTENDS RequestDecode, FiniteSetTheorems, SequenceTheorems, WellFoundedInduction,
        TLAPS

(* Every non-empty set of natural numbers has a least element. *)
LEMMA LeastElement ==
  ASSUME NEW C \in SUBSET Nat, C # {}
  PROVE  \E c \in C : \A d \in C : c <= d
<1> DEFINE R == {ss \in Nat \X Nat : ss[1] < ss[2]}
<1>1. IsWellFoundedOn(R, Nat)
  BY NatLessThanWellFounded DEF OpToRel
<1>2. \A c, d \in Nat : d < c => <<d, c>> \in R
  OBVIOUS
<1> HIDE DEF R
<1>3. PICK c \in C : \A d \in C : ~ (<<d, c>> \in R)
  BY <1>1, WFMin
<1>4. ASSUME NEW d \in C
      PROVE  c <= d
  <2>1. c \in Nat /\ d \in Nat
    OBVIOUS
  <2>2. ~ (<<d, c>> \in R)
    BY <1>3
  <2>3. ~ (d < c)
    BY <2>1, <2>2, <1>2
  <2>4. QED
    BY <2>1, <2>3
<1>5. QED
  BY <1>4

(* Removing the head keeps the remaining elements, shifted by one. *)
LEMMA TailFacts ==
  ASSUME NEW S, NEW s \in Seq(S), s # << >>
  PROVE  /\ Len(s) >= 1
         /\ Head(s) = s[1]
         /\ Head(s) \in S
         /\ Tail(s) \in Seq(S)
         /\ Len(Tail(s)) = Len(s) - 1
         /\ \A i \in 1..(Len(s) - 1) : Tail(s)[i] = s[i + 1]
  OBVIOUS

LEMMA ConcatFacts ==
  ASSUME NEW S, NEW s \in Seq(S), NEW t \in Seq(S)
  PROVE  /\ s \o t \in Seq(S)
         /\ Len(s \o t) = Len(s) + Len(t)
         /\ \A i \in 1..Len(s) : (s \o t)[i] = s[i]
         /\ \A i \in 1..Len(t) : (s \o t)[Len(s) + i] = t[i]
  OBVIOUS

-----------------------------------------------------------------------------
(* FlattenSeq of the community modules.                                    *)

(* The function that FlattenSeq defines by recursion, for its first n parts. *)
Flattens(f, s, n) ==
  f = [i \in 1..n |-> IF i = 1 THEN s[i] ELSE f[i - 1] \o s[i]]

LEMMA FlattenExists ==
  ASSUME NEW s, NEW n \in Nat
  PROVE  \E f : Flattens(f, s, n)
<1> SUFFICES ASSUME \A f : ~Flattens(f, s, n)
             PROVE  FALSE
  OBVIOUS
<1> DEFINE C == {m \in Nat : \A f : ~Flattens(f, s, m)}
<1>1. C \in SUBSET Nat /\ C # {}
  OBVIOUS
<1>2. PICK m \in C : \A d \in C : m <= d
  BY <1>1, LeastElement
<1>3. CASE m = 0
  <2>1. Flattens(<< >>, s, m)
    BY <1>3 DEF Flattens
  <2>2. QED
    BY <1>2, <2>1
<1>4. CASE m # 0
  <2>1. m - 1 \in Nat /\ m - 1 \notin C /\ m \in Nat
    BY <1>2, <1>4
  <2>2. PICK f : Flattens(f, s, m - 1)
    BY <2>1
  <2> DEFINE g == [i \in 1..m |-> IF i = m THEN IF m = 1 THEN s[m] ELSE f[m - 1] \o s[m]
                                  ELSE f[i]]
             h == [i \in 1..m |-> IF i = 1 THEN s[i] ELSE g[i - 1] \o s[i]]
  <2>3. ASSUME NEW i \in 1..m
        PROVE  g[i] = h[i]
    <3>1. CASE i = m
      <4>1. CASE m = 1
        BY <3>1, <4>1
      <4>2. CASE m # 1
        <5>1. m - 1 \in 1..m /\ m - 1 # m
          BY <2>1, <4>2
        <5>2. g[m - 1] = f[m - 1]
          BY <5>1
        <5>3. QED
          BY <3>1, <4>2, <5>2
      <4>3. QED
        BY <4>1, <4>2
    <3>2. CASE i # m
      <4>1. i \in 1..(m - 1)
        BY <2>1, <3>2
      <4>2. g[i] = f[i] /\ f[i] = IF i = 1 THEN s[i] ELSE f[i - 1] \o s[i]
        BY <2>2, <3>2, <4>1 DEF Flattens
      <4>3. i # 1 => g[i - 1] = f[i - 1]
        <5>1. i # 1 => i - 1 \in 1..m /\ i - 1 # m
          BY <2>1, <4>1
        <5>2. QED
          BY <5>1
      <4>4. QED
        BY <4>2, <4>3
    <3>3. QED
      BY <3>1, <3>2
  <2>4. g = h
    BY <2>3
  <2>5. Flattens(g, s, m)
    BY <2>4 DEF Flattens
  <2>6. QED
    BY <1>2, <2>5
<1>5. QED
  BY <1>3, <1>4

Agree(s, t, n) == \A i \in 1..n : s[i] = t[i]

(* It is determined, part by part, by the parts themselves. *)
LEMMA FlattenUnique ==
  ASSUME NEW s, NEW t, NEW n \in Nat, NEW m \in 0..n,
         Agree(s, t, m), NEW f, NEW g, Flattens(f, s, m), Flattens(g, t, n)
  PROVE  Agree(f, g, m)
<1> SUFFICES ASSUME NEW k \in 1..m, f[k] # g[k]
             PROVE  FALSE
  BY DEF Agree
<1> DEFINE C == {i \in 1..m : f[i] # g[i]}
<1>1. C \in SUBSET Nat /\ C # {}
  OBVIOUS
<1>2. PICK i \in C : \A d \in C : i <= d
  BY <1>1, LeastElement
<1>3. i \in 1..m /\ i \in 1..n
  BY <1>2
<1>4. /\ f[i] = IF i = 1 THEN s[i] ELSE f[i - 1] \o s[i]
      /\ g[i] = IF i = 1 THEN t[i] ELSE g[i - 1] \o t[i]
  BY <1>3 DEF Flattens
<1>5. i # 1 => f[i - 1] = g[i - 1]
  BY <1>2, <1>3
<1>6. QED
  BY <1>2, <1>3, <1>4, <1>5 DEF Agree

LEMMA FlattenTyped ==
  ASSUME NEW S, NEW s, NEW n \in Nat, \A i \in 1..n : s[i] \in Seq(S),
         NEW f, Flattens(f, s, n)
  PROVE  \A i \in 1..n : f[i] \in Seq(S)
<1> SUFFICES ASSUME NEW k \in 1..n, f[k] \notin Seq(S)
             PROVE  FALSE
  OBVIOUS
<1> DEFINE C == {i \in 1..n : f[i] \notin Seq(S)}
<1>1. C \in SUBSET Nat /\ C # {}
  OBVIOUS
<1>2. PICK i \in C : \A d \in C : i <= d
  BY <1>1, LeastElement
<1>3. f[i] = IF i = 1 THEN s[i] ELSE f[i - 1] \o s[i]
  BY <1>2 DEF Flattens
<1>4. i # 1 => f[i - 1] \in Seq(S)
  BY <1>2
<1>5. f[i] \in Seq(S)
  BY <1>2, <1>3, <1>4
<1>6. QED
  BY <1>2, <1>5

LEMMA FlattenSeqIs ==
  ASSUME NEW s, Len(s) \in Nat \ {0}
  PROVE  \E f : Flattens(f, s, Len(s)) /\ FlattenSeq(s) = f[Len(s)]
<1>1. \E f : f = [i \in 1..Len(s) |-> IF i = 1 THEN s[i] ELSE f[i - 1] \o s[i]]
  BY FlattenExists DEF Flattens
<1>2. QED
  BY <1>1 DEF FlattenSeq, Flattens

LEMMA FlattenEmpty == FlattenSeq(<< >>) = << >>
  BY DEF FlattenSeq

LEMMA FlattenIsSeq ==
  ASSUME NEW S, NEW s \in Seq(Seq(S))
  PROVE  FlattenSeq(s) \in Seq(S)
<1>1. CASE s = << >>
  <2>1. FlattenSeq(s) = << >>
    BY <1>1, FlattenEmpty
  <2>2. << >> \in Seq(S)
    OBVIOUS
  <2>3. QED
    BY <2>1, <2>2
<1>2. CASE s # << >>
  <2>1. Len(s) \in Nat \ {0} /\ \A i \in 1..Len(s) : s[i] \in Seq(S)
    BY <1>2
  <2>2. PICK f : Flattens(f, s, Len(s)) /\ FlattenSeq(s) = f[Len(s)]
    BY <2>1, FlattenSeqIs
  <2>3. \A i \in 1..Len(s) : f[i] \in Seq(S)
    BY <2>1, <2>2, FlattenTyped
  <2>4. QED
    BY <2>1, <2>2, <2>3
<1>3. QED
  BY <1>1, <1>2

LEMMA FlattenAppend ==
  ASSUME NEW S, NEW s \in Seq(Seq(S)), NEW x \in Seq(S)
  PROVE  FlattenSeq(Append(s, x)) = FlattenSeq(s) \o x
<1> DEFINE t == Append(s, x)
<1>1. /\ Len(s) \in Nat /\ Len(t) = Len(s) + 1 /\ t[Len(s) + 1] = x
      /\ \A i \in 1..Len(s) : s[i] = t[i]
  <2>1. s \in Seq(Seq(S)) /\ x \in Seq(S)
    OBVIOUS
  <2>2. QED
    BY <2>1, AppendProperties
<1> HIDE DEF t
<1>2. Len(t) \in Nat \ {0}
  BY <1>1
<1>3. PICK g : Flattens(g, t, Len(t)) /\ FlattenSeq(t) = g[Len(t)]
  BY <1>2, FlattenSeqIs
<1>4. g[Len(t)] = IF Len(t) = 1 THEN t[Len(t)] ELSE g[Len(t) - 1] \o t[Len(t)]
  <2>1. Len(t) \in 1..Len(t)
    BY <1>2
  <2>2. QED
    BY <1>3, <2>1 DEF Flattens
<1>5. CASE s = << >>
  <2>1. g[Len(t)] = x
    BY <1>1, <1>4, <1>5
  <2>2. FlattenSeq(s) \o x = x
    BY <1>5, FlattenEmpty
  <2>3. QED
    BY <1>3, <2>1, <2>2 DEF t
<1>6. CASE s # << >>
  <2>1. Len(s) \in Nat \ {0}
    BY <1>6
  <2>2. PICK f : Flattens(f, s, Len(s)) /\ FlattenSeq(s) = f[Len(s)]
    BY <2>1, FlattenSeqIs
  <2>3. /\ Len(t) \in Nat /\ Len(s) \in 0..Len(t) /\ Agree(s, t, Len(s))
        /\ Flattens(f, s, Len(s)) /\ Flattens(g, t, Len(t))
    BY <1>1, <1>3, <2>2 DEF Agree
  <2>4. \A i \in 1..Len(s) : f[i] = g[i]
    <3>1. Agree(f, g, Len(s))
      BY <2>3, FlattenUnique
    <3>2. QED
      BY <3>1 DEF Agree
  <2>5. g[Len(t)] = f[Len(s)] \o x
    <3>1. Len(s) \in 1..Len(s) /\ Len(t) # 1 /\ Len(t) - 1 = Len(s)
      BY <1>1, <2>1
    <3>2. g[Len(s)] = f[Len(s)]
      BY <2>4, <3>1
    <3>3. QED
      BY <1>1, <1>4, <3>1, <3>2
  <2>6. QED
    BY <1>3, <2>2, <2>5 DEF t
<1>7. QED
  BY <1>5, <1>6

LEMMA ConcatAppend ==
  ASSUME NEW S, NEW s \in Seq(S), NEW t \in Seq(S), NEW x \in S
  PROVE  /\ s \o t \in Seq(S)
         /\ s \o Append(t, x) = Append(s \o t, x)
  OBVIOUS

LEMMA FlattenConcat ==
  ASSUME NEW S, NEW s \in Seq(Seq(S)), NEW t \in Seq(Seq(S))
  PROVE  FlattenSeq(s \o t) = FlattenSeq(s) \o FlattenSeq(t)
<1> DEFINE Wrong == {n \in 0..Len(t) :
               FlattenSeq(s \o SubSeq(t, 1, n)) # FlattenSeq(s) \o FlattenSeq(SubSeq(t, 1, n))}
<1>1. ASSUME Wrong # {}
      PROVE  FALSE
  <2>1. PICK n \in Wrong : \A d \in Wrong : n <= d
    <3>1. Wrong \in SUBSET Nat
      OBVIOUS
    <3> HIDE DEF Wrong
    <3>2. QED
      BY <1>1, <3>1, LeastElement
  <2>2. n \in 0..Len(t)
        /\ FlattenSeq(s \o SubSeq(t, 1, n)) # FlattenSeq(s) \o FlattenSeq(SubSeq(t, 1, n))
    BY <2>1
  <2>3. n # 0
    <3>1. SubSeq(t, 1, 0) = << >> /\ s \o << >> = s
      OBVIOUS
    <3>2. FlattenSeq(s) \o << >> = FlattenSeq(s)
      BY FlattenIsSeq
    <3>3. QED
      BY <2>2, <3>1, <3>2, FlattenEmpty
  <2>4. n - 1 \in 0..Len(t) /\ n \in 1..Len(t) /\ t[n] \in Seq(S) /\ n - 1 \notin Wrong
    <3>1. Len(t) \in Nat /\ n \in 0..Len(t)
      BY <2>2
    <3>2. n - 1 \in 0..Len(t) /\ n \in 1..Len(t) /\ ~(n <= n - 1)
      BY <2>3, <3>1
    <3>3. t[n] \in Seq(S)
      BY <3>2
    <3> HIDE DEF Wrong
    <3>4. n - 1 \notin Wrong
      BY <2>1, <3>2
    <3>5. QED
      BY <3>2, <3>3, <3>4
  <2> DEFINE a == SubSeq(t, 1, n - 1)
  <2>5. a \in Seq(Seq(S)) /\ SubSeq(t, 1, n) = Append(a, t[n])
    BY <2>4
  <2>6. FlattenSeq(s \o a) = FlattenSeq(s) \o FlattenSeq(a)
    BY <2>4
  <2> HIDE DEF a, Wrong
  <2>7. s \o Append(a, t[n]) = Append(s \o a, t[n]) /\ s \o a \in Seq(Seq(S))
    <3> DEFINE P == Seq(S)
               x == t[n]
    <3>1. s \in Seq(P) /\ a \in Seq(P) /\ x \in P
      BY <2>4, <2>5
    <3> HIDE DEF P, x
    <3>2. s \o Append(a, x) = Append(s \o a, x) /\ s \o a \in Seq(P)
      BY <3>1, ConcatAppend
    <3>3. QED
      BY <3>2 DEF P, x
  <2>8. /\ FlattenSeq(Append(s \o a, t[n])) = FlattenSeq(s \o a) \o t[n]
        /\ FlattenSeq(Append(a, t[n])) = FlattenSeq(a) \o t[n]
    BY <2>4, <2>5, <2>7, FlattenAppend
  <2>9. (FlattenSeq(s) \o FlattenSeq(a)) \o t[n] = FlattenSeq(s) \o (FlattenSeq(a) \o t[n])
    <3>1. FlattenSeq(s) \in Seq(S) /\ FlattenSeq(a) \in Seq(S) /\ t[n] \in Seq(S)
      BY <2>4, <2>5, FlattenIsSeq
    <3> DEFINE u == FlattenSeq(s)
               v == FlattenSeq(a)
               w == t[n]
    <3> HIDE DEF u, v, w
    <3>2. u \in Seq(S) /\ v \in Seq(S) /\ w \in Seq(S)
      BY <3>1 DEF u, v, w
    <3>3. (u \o v) \o w = u \o (v \o w)
      BY <3>2, SMTT(40)
    <3>4. QED
      BY <3>3 DEF u, v, w
  <2>10. QED
    BY <2>2, <2>5, <2>6, <2>7, <2>8, <2>9
<1>2. Len(t) \in 0..Len(t) /\ SubSeq(t, 1, Len(t)) = t
  OBVIOUS
<1>3. QED
  BY <1>1, <1>2

(* grpc_web_base64.c                                                       *)

(* Every group of one, two or three octets. *)
Groups == {g \in Seq(Octets) : Len(g) \in 1..3}

(* Two digits, each split between two octets, fill one octet. *)
LEMMA OctetOfDigits ==
  ASSUME NEW a \in Digits, NEW b \in Digits
  PROVE  /\ a * Q + b \div (Q * Q) \in Octets
         /\ (a % (Q * Q)) * (Q * Q) + b \div Q \in Octets
         /\ (a % Q) * (Q * Q * Q) + b \in Octets
<1>1. CASE Q = 2
  <2>1. a \in 0..7 /\ b \in 0..7 /\ Octets = 0..15
    BY <1>1 DEF Digits, Octets
  <2>2. /\ a * 2 + b \div 4 \in 0..15
        /\ (a % 4) * 4 + b \div 2 \in 0..15
        /\ (a % 2) * 8 + b \in 0..15
    BY <2>1
  <2>3. QED BY <1>1, <2>1, <2>2
<1>2. CASE Q = 4
  <2>1. a \in 0..63 /\ b \in 0..63 /\ Octets = 0..255
    BY <1>2 DEF Digits, Octets
  <2>2. /\ a * 4 + b \div 16 \in 0..255
        /\ (a % 16) * 16 + b \div 4 \in 0..255
        /\ (a % 4) * 64 + b \in 0..255
    BY <2>1
  <2>3. QED BY <1>2, <2>1, <2>2
<1>3. QED BY <1>1, <1>2, QAssumption

(* The characters that a good quartet consists of. *)
LEMMA QuartetDigits ==
  ASSUME NEW q \in Seq(Chars), Len(q) = 4, QuartetOK(q)
  PROVE  /\ q[1] \in Digits /\ q[2] \in Digits
         /\ q[3] \in Digits \cup {Pad} /\ q[4] \in Digits \cup {Pad}
         /\ q[3] = Pad => q[4] = Pad
<1>1. \A i \in 1..Len(q) : q[i] \in Chars
  OBVIOUS
<1>2. q[1] \in Chars /\ q[2] \in Chars /\ q[3] \in Chars /\ q[4] \in Chars
  BY <1>1
<1>3. QED
  BY <1>2, QAssumption DEF QuartetOK, Chars, Pad, Junk, Digits

(* Lines 46-67: a quartet that passes the checks yields one octet less than
   three for every padding character, and every one of them fits a byte. *)
THEOREM DecodeYieldsOctets ==
  ASSUME NEW q \in Seq(Chars), Len(q) = 4, QuartetOK(q)
  PROVE  /\ DecodeQuartet(q) \in Seq(Octets)
         /\ Len(DecodeQuartet(q)) \in 1..3
         /\ Len(DecodeQuartet(q)) = 3 <=> ~Padded(q)
<1>1. /\ q[1] \in Digits /\ q[2] \in Digits
      /\ q[3] \in Digits \cup {Pad} /\ q[4] \in Digits \cup {Pad}
      /\ q[3] = Pad => q[4] = Pad
  BY QuartetDigits
<1> DEFINE first  == q[1] * Q + q[2] \div (Q * Q)
           second == (q[2] % (Q * Q)) * (Q * Q) + q[3] \div Q
           third  == (q[3] % Q) * (Q * Q * Q) + q[4]
<1>3. first \in Octets
  BY <1>1, OctetOfDigits
<1>4. ASSUME q[3] # Pad PROVE second \in Octets
  BY <1>1, <1>4, OctetOfDigits
<1>5. ASSUME q[4] # Pad PROVE third \in Octets
  BY <1>1, <1>5, OctetOfDigits
<1>6. DecodeQuartet(q) = IF q[3] = Pad THEN <<first>>
                         ELSE IF q[4] = Pad THEN <<first, second>>
                         ELSE <<first, second, third>>
  BY DEF DecodeQuartet
<1> HIDE DEF first, second, third
<1>7. CASE q[3] = Pad BY <1>7, <1>1, <1>3, <1>6 DEF Padded
<1>8. CASE q[3] # Pad /\ q[4] = Pad BY <1>8, <1>3, <1>4, <1>6 DEF Padded
<1>9. CASE q[3] # Pad /\ q[4] # Pad
  BY <1>9, <1>3, <1>4, <1>5, <1>6 DEF Padded
<1>10. QED BY <1>7, <1>8, <1>9

(* The characters that an encoded group consists of. *)
LEMMA EncodeYieldsQuartet ==
  ASSUME NEW g \in Groups
  PROVE  /\ EncodeGroup(g) \in Seq(Chars)
         /\ Len(EncodeGroup(g)) = 4
         /\ QuartetOK(EncodeGroup(g))
<1> DEFINE b0 == g[1]
           b1 == IF Len(g) > 1 THEN g[2] ELSE 0
           d0 == b0 \div Q
           d1 == (b0 % Q) * (Q * Q) + b1 \div (Q * Q)
           d2 == (b1 % (Q * Q)) * Q
           e2 == d2 + g[3] \div (Q * Q * Q)
           e3 == g[3] % (Q * Q * Q)
<1>1. b0 \in Octets /\ b1 \in Octets
  BY QAssumption DEF Groups, Octets
<1>2. Len(g) = 3 => g[3] \in Octets
  BY DEF Groups
<1>3. d0 \in Digits /\ d1 \in Digits /\ d2 \in Digits
  <2> HIDE DEF b0, b1
  <2>1. CASE Q = 2 BY <2>1, <1>1 DEF Digits, Octets
  <2>2. CASE Q = 4 BY <2>2, <1>1 DEF Digits, Octets
  <2>3. QED BY <2>1, <2>2, QAssumption
<1>4. ASSUME Len(g) = 3 PROVE e2 \in Digits /\ e3 \in Digits
  <2>1. g[3] \in Octets BY <1>2, <1>4
  <2> HIDE DEF b0, b1
  <2>2. CASE Q = 2 BY <2>1, <2>2, <1>1 DEF Digits, Octets
  <2>3. CASE Q = 4 BY <2>1, <2>3, <1>1 DEF Digits, Octets
  <2>4. QED BY <2>2, <2>3, QAssumption
<1>5. EncodeGroup(g) = IF Len(g) = 1 THEN <<d0, d1, Pad, Pad>>
                       ELSE IF Len(g) = 2 THEN <<d0, d1, d2, Pad>>
                       ELSE <<d0, d1, e2, e3>>
  BY DEF EncodeGroup
<1> HIDE DEF d0, d1, d2, e2, e3
<1>6. \A d \in Digits : d \in Int /\ d >= 0 /\ d # Pad /\ d # Junk /\ d \in Chars
  BY QAssumption DEF Digits, Pad, Junk, Chars
<1>7. Pad \in Chars /\ Pad # Junk
  BY DEF Chars, Pad, Junk
<1>8. CASE Len(g) = 1 BY <1>8, <1>3, <1>5, <1>6, <1>7 DEF QuartetOK
<1>9. CASE Len(g) = 2 BY <1>9, <1>3, <1>5, <1>6, <1>7 DEF QuartetOK
<1>10. CASE Len(g) = 3 BY <1>10, <1>3, <1>4, <1>5, <1>6, <1>7 DEF QuartetOK
<1>11. QED BY <1>8, <1>9, <1>10 DEF Groups

(* Division takes apart what a carry has put together. *)
LEMMA CarryFacts ==
  ASSUME NEW x \in Nat, NEW y \in Nat
  PROVE  /\ y < 2 => (x * 2 + y) \div 2 = x /\ (x * 2 + y) % 2 = y
         /\ y < 4 => (x * 4 + y) \div 4 = x /\ (x * 4 + y) % 4 = y
         /\ y < 16 => (x * 16 + y) % 16 = y
OBVIOUS

(* The last digits of a full group give its second and third octet back. *)
LEMMA ThirdOctet ==
  ASSUME NEW a \in Octets, NEW b \in Octets, NEW c \in Octets
  PROVE  LET d1 == (a % Q) * (Q * Q) + b \div (Q * Q)
             e2 == (b % (Q * Q)) * Q + c \div (Q * Q * Q)
             e3 == c % (Q * Q * Q)
         IN  /\ (d1 % (Q * Q)) * (Q * Q) + e2 \div Q = b
             /\ (e2 % Q) * (Q * Q * Q) + e3 = c
<1>1. CASE Q = 2
  <2>1. a \in 0..15 /\ b \in 0..15 /\ c \in 0..15
    BY <1>1 DEF Octets
  <2> DEFINE ar == a % 2
             bq == b \div 4
             br == b % 4
             cq == c \div 8
             cr == c % 8
  <2>2. /\ ar \in Nat /\ bq \in 0..3 /\ br \in Nat /\ cq \in 0..1 /\ cr \in Nat
        /\ b = bq * 4 + br
        /\ c = cq * 8 + cr
        /\ br < 4
    BY <2>1
  <2> HIDE DEF ar, bq, br, cq, cr
  <2>3. /\ (ar * 4 + bq) % 4 = bq
        /\ (br * 2 + cq) \div 2 = br
        /\ (br * 2 + cq) % 2 = cq
    BY <2>2, CarryFacts
  <2>4. /\ ((ar * 4 + bq) % 4) * 4 + (br * 2 + cq) \div 2 = b
        /\ ((br * 2 + cq) % 2) * 8 + cr = c
    BY <2>2, <2>3
  <2>5. QED BY <1>1, <2>4 DEF ar, bq, br, cq, cr
<1>2. CASE Q = 4
  <2>1. a \in 0..255 /\ b \in 0..255 /\ c \in 0..255
    BY <1>2 DEF Octets
  <2> DEFINE ar == a % 4
             bq == b \div 16
             br == b % 16
             cq == c \div 64
             cr == c % 64
  <2>2. /\ ar \in Nat /\ bq \in 0..15 /\ br \in Nat /\ cq \in 0..3 /\ cr \in Nat
        /\ b = bq * 16 + br
        /\ c = cq * 64 + cr
    BY <2>1
  <2> HIDE DEF ar, bq, br, cq, cr
  <2>3. /\ (ar * 16 + bq) % 16 = bq
        /\ (br * 4 + cq) \div 4 = br
        /\ (br * 4 + cq) % 4 = cq
    BY <2>2, CarryFacts
  <2>4. /\ ((ar * 16 + bq) % 16) * 16 + (br * 4 + cq) \div 4 = b
        /\ ((br * 4 + cq) % 4) * 64 + cr = c
    BY <2>2, <2>3
  <2>5. QED BY <1>2, <2>4 DEF ar, bq, br, cq, cr
<1>3. QED BY <1>1, <1>2, QAssumption

(* Lines 38-68 undo lines 127-160: what encode_text_block writes for one,
   two or three octets, a decoder of the same table reads back unchanged. *)
THEOREM DecodeUndoesEncode ==
  ASSUME NEW g \in Groups
  PROVE  DecodeQuartet(EncodeGroup(g)) = g
<1> DEFINE b0 == g[1]
           b1 == IF Len(g) > 1 THEN g[2] ELSE 0
           d0 == b0 \div Q
           d1 == (b0 % Q) * (Q * Q) + b1 \div (Q * Q)
           d2 == (b1 % (Q * Q)) * Q
           e2 == d2 + g[3] \div (Q * Q * Q)
           e3 == g[3] % (Q * Q * Q)
<1>1. b0 \in Octets /\ b1 \in Octets
  BY QAssumption DEF Groups, Octets
<1>2. Len(g) = 3 => g[3] \in Octets
  BY DEF Groups
<1>3. d0 * Q + d1 \div (Q * Q) = b0
  <2> HIDE DEF b0, b1
  <2>1. CASE Q = 2 BY <2>1, <1>1 DEF Octets
  <2>2. CASE Q = 4 BY <2>2, <1>1 DEF Octets
  <2>3. QED BY <2>1, <2>2, QAssumption
<1>4. (d1 % (Q * Q)) * (Q * Q) + d2 \div Q = b1
  <2> HIDE DEF b0, b1
  <2>1. CASE Q = 2 BY <2>1, <1>1 DEF Octets
  <2>2. CASE Q = 4 BY <2>2, <1>1 DEF Octets
  <2>3. QED BY <2>1, <2>2, QAssumption
<1>5. ASSUME Len(g) = 3
      PROVE  /\ (d1 % (Q * Q)) * (Q * Q) + e2 \div Q = b1
             /\ (e2 % Q) * (Q * Q * Q) + e3 = g[3]
  BY <1>1, <1>2, <1>5, ThirdOctet
<1>6. EncodeGroup(g) = IF Len(g) = 1 THEN <<d0, d1, Pad, Pad>>
                       ELSE IF Len(g) = 2 THEN <<d0, d1, d2, Pad>>
                       ELSE <<d0, d1, e2, e3>>
  BY DEF EncodeGroup
<1>7. d2 # Pad /\ (Len(g) = 3 => e2 # Pad /\ e3 # Pad)
  <2>1. EncodeGroup(g) = EncodeGroup(g) OBVIOUS
  <2>2. d2 >= 0 /\ d2 \in Int
    <3> HIDE DEF b0, b1
    <3>1. CASE Q = 2 BY <3>1, <1>1 DEF Octets
    <3>2. CASE Q = 4 BY <3>2, <1>1 DEF Octets
    <3>3. QED BY <3>1, <3>2, QAssumption
  <2>3. ASSUME Len(g) = 3 PROVE e2 >= 0 /\ e3 >= 0 /\ e2 \in Int /\ e3 \in Int
    <3>1. g[3] \in Octets BY <1>2, <2>3
    <3> HIDE DEF d2
    <3>2. CASE Q = 2 BY <3>1, <3>2, <2>2 DEF Octets
    <3>3. CASE Q = 4 BY <3>1, <3>3, <2>2 DEF Octets
    <3>4. QED BY <3>2, <3>3, QAssumption
  <2> HIDE DEF d2, e2, e3
  <2>4. QED BY <2>2, <2>3 DEF Pad
<1> HIDE DEF d0, d1, d2, e2, e3
<1>8. CASE Len(g) = 1
  <2>1. DecodeQuartet(EncodeGroup(g)) = <<b0>>
    BY <1>8, <1>6, <1>3 DEF DecodeQuartet
  <2>2. QED BY <2>1, <1>8 DEF Groups
<1>9. CASE Len(g) = 2
  <2>1. DecodeQuartet(EncodeGroup(g)) = <<b0, b1>>
    BY <1>9, <1>6, <1>3, <1>4, <1>7 DEF DecodeQuartet
  <2>2. QED BY <2>1, <1>9 DEF Groups
<1>10. CASE Len(g) = 3
  <2>1. DecodeQuartet(EncodeGroup(g)) = <<b0, b1, g[3]>>
    BY <1>10, <1>6, <1>3, <1>5, <1>7 DEF DecodeQuartet
  <2>2. QED BY <2>1, <1>10 DEF Groups
<1>11. QED BY <1>8, <1>9, <1>10 DEF Groups

-----------------------------------------------------------------------------
(* What a text means                                                       *)

(* How many padding characters a valid text ends with. *)
PadsOf(t) ==
  IF t = << >> \/ t[Len(t)] # Pad THEN 0 ELSE IF t[Len(t) - 1] = Pad THEN 2 ELSE 1

(* The octet i of the row of units that a text is. *)
UnitAt(t, u)  == (t[(u \div 3) + 1] \div <<Q * Q, Q, 1>>[(u % 3) + 1]) % Q
OctetAt(t, i) ==
  UnitAt(t, 4 * (i - 1)) * (Q * Q * Q) + UnitAt(t, 4 * (i - 1) + 1) * (Q * Q)
    + UnitAt(t, 4 * (i - 1) + 2) * Q + UnitAt(t, 4 * (i - 1) + 3)

LEMMA CharFacts == Chars \subseteq Int /\ Digits \subseteq Nat /\ Pad \in Int
  BY QAssumption DEF Chars, Digits, Pad, Junk

LEMMA PadCount ==
  ASSUME NEW t \in Seq(Chars), Valid(t)
  PROVE  Cardinality({i \in 1..Len(t) : t[i] = Pad}) = PadsOf(t)
<1> DEFINE P == {i \in 1..Len(t) : t[i] = Pad}
           n == Len(t)
<1>1. n \in Nat /\ n % 4 = 0
  BY DEF Valid
<1>2. \A i \in 1..n : t[i] = Pad => (i = n - 1 \/ i = n) /\ t[n] = Pad
  BY <1>1 DEF Valid
<1>3. CASE t = << >> \/ t[n] # Pad
  <2>1. P = {}
    BY <1>2, <1>3
  <2>2. Cardinality(P) = 0
    BY <2>1, FS_EmptySet
  <2>3. QED
    BY <1>3, <2>2 DEF PadsOf
<1>4. CASE ~(t = << >> \/ t[n] # Pad) /\ t[n - 1] # Pad
  <2>1. P = {n}
    BY <1>1, <1>2, <1>4
  <2>2. Cardinality(P) = 1
    BY <2>1, FS_Singleton
  <2>3. QED
    BY <1>4, <2>2 DEF PadsOf
<1>5. CASE ~(t = << >> \/ t[n] # Pad) /\ t[n - 1] = Pad
  <2>1. n >= 4
    BY <1>1, <1>5
  <2>2. P = {n - 1} \cup {n} /\ n \notin {n - 1}
    BY <1>2, <1>5, <2>1
  <2>3. IsFiniteSet({n - 1}) /\ Cardinality({n - 1}) = 1
    BY FS_Singleton
  <2>4. Cardinality({n - 1} \cup {n}) = 2
    <3>1. Cardinality({n - 1} \cup {n}) = Cardinality({n - 1}) + 1
      BY <2>2, <2>3, FS_AddElement
    <3>2. QED
      BY <2>3, <3>1
  <2>5. QED
    BY <1>5, <2>2, <2>4 DEF PadsOf
<1>6. QED
  BY <1>3, <1>4, <1>5

LEMMA UnitFacts ==
  ASSUME NEW t \in Seq(Chars), NEW u \in Nat, u < 3 * Len(t)
  PROVE  /\ UnitAt(t, u) \in 0..(Q - 1)
         /\ (u \div 3) + 1 \in 1..Len(t)
         /\ UnitAt(t, u) = IF u % 3 = 0 THEN (t[(u \div 3) + 1] \div (Q * Q)) % Q
                           ELSE IF u % 3 = 1 THEN (t[(u \div 3) + 1] \div Q) % Q
                           ELSE t[(u \div 3) + 1] % Q
<1> DEFINE k == (u \div 3) + 1
           w == (u % 3) + 1
           d == t[k]
<1>1. Len(t) \in Nat /\ k \in 1..Len(t) /\ w \in 1..3
  OBVIOUS
<1> HIDE DEF k, w
<1>2. d \in Int
  <2>1. d \in Chars
    BY <1>1
  <2>2. QED
    BY <2>1, CharFacts
<1> HIDE DEF d
<1>3. UnitAt(t, u) = (d \div <<Q * Q, Q, 1>>[w]) % Q
  BY DEF UnitAt, k, w, d
<1>4. <<Q * Q, Q, 1>>[w] = IF w = 1 THEN Q * Q ELSE IF w = 2 THEN Q ELSE 1
  BY <1>1
<1>5. d \div 1 = d
  BY <1>2
<1>6. UnitAt(t, u) = IF w = 1 THEN (d \div (Q * Q)) % Q
                     ELSE IF w = 2 THEN (d \div Q) % Q ELSE d % Q
  BY <1>1, <1>3, <1>4, <1>5
<1>7. UnitAt(t, u) \in 0..(Q - 1)
  <2>1. CASE Q = 2
    BY <1>2, <1>6, <2>1
  <2>2. CASE Q = 4
    BY <1>2, <1>6, <2>2
  <2>3. QED
    BY <2>1, <2>2, QAssumption
<1>8. (w = 1 <=> u % 3 = 0) /\ (w = 2 <=> u % 3 = 1)
  BY DEF w
<1>9. QED
  BY <1>1, <1>6, <1>7, <1>8 DEF k, d

LEMMA OctetTyped ==
  ASSUME NEW t \in Seq(Chars), NEW i \in Nat \ {0}, 4 * i <= 3 * Len(t)
  PROVE  OctetAt(t, i) \in Octets
<1> DEFINE u == 4 * (i - 1)
<1>1. u \in Nat /\ u + 3 < 3 * Len(t)
  OBVIOUS
<1> HIDE DEF u
<1>2. /\ UnitAt(t, u) \in 0..(Q - 1) /\ UnitAt(t, u + 1) \in 0..(Q - 1)
      /\ UnitAt(t, u + 2) \in 0..(Q - 1) /\ UnitAt(t, u + 3) \in 0..(Q - 1)
  <2>1. /\ u \in Nat /\ u + 1 \in Nat /\ u + 2 \in Nat /\ u + 3 \in Nat
        /\ u < 3 * Len(t) /\ u + 1 < 3 * Len(t) /\ u + 2 < 3 * Len(t) /\ u + 3 < 3 * Len(t)
    BY <1>1
  <2>2. QED
    BY <2>1, UnitFacts
<1>3. \A a, b, c, d \in 0..(Q - 1) : a * (Q * Q * Q) + b * (Q * Q) + c * Q + d \in Octets
  <2>1. CASE Q = 2
    BY <2>1 DEF Octets
  <2>2. CASE Q = 4
    BY <2>2 DEF Octets
  <2>3. QED
    BY <2>1, <2>2, QAssumption
<1>4. QED
  BY <1>2, <1>3 DEF OctetAt, u

LEMMA MeaningFacts ==
  ASSUME NEW t \in Seq(Chars), Valid(t)
  PROVE  /\ PadsOf(t) \in 0..2 /\ Len(t) % 4 = 0 /\ Len(t) \in Nat
         /\ PadsOf(t) > 0 => Len(t) >= 4
         /\ Meaning(t) \in Seq(Octets)
         /\ Len(Meaning(t)) = 3 * (Len(t) \div 4) - PadsOf(t)
         /\ \A i \in 1..Len(Meaning(t)) : Meaning(t)[i] = OctetAt(t, i)
<1> DEFINE n == 3 * (Len(t) \div 4) - PadsOf(t)
<1>1. /\ PadsOf(t) \in 0..2 /\ Len(t) % 4 = 0 /\ Len(t) \in Nat
      /\ PadsOf(t) > 0 => Len(t) >= 4
  BY DEF Valid, PadsOf
<1>2. n \in Nat /\ \A i \in 1..n : i \in Nat \ {0} /\ 4 * i <= 3 * Len(t)
  BY <1>1
<1> HIDE DEF n
<1>3. Meaning(t) = [i \in 1..n |-> OctetAt(t, i)]
  <2>1. Cardinality({i \in 1..Len(t) : t[i] = Pad}) = PadsOf(t)
    BY PadCount
  <2>2. QED
    BY <2>1 DEF Meaning, OctetAt, UnitAt, n
<1>4. \A i \in 1..n : OctetAt(t, i) \in Octets
  BY <1>2, OctetTyped
<1>5. Meaning(t) \in [1..n -> Octets]
  BY <1>3, <1>4
<1>6. Meaning(t) \in Seq(Octets) /\ Len(Meaning(t)) = n
  BY <1>2, <1>5
<1>7. QED
  BY <1>1, <1>3, <1>6 DEF n

(* The meaning of a longer text begins with that of a shorter one. *)
LEMMA MeaningGrows ==
  ASSUME NEW a \in Seq(Chars), NEW b \in Seq(Chars), Valid(a), Valid(b),
         Len(a) <= Len(b), Agree(a, b, Len(a))
  PROVE  /\ Len(Meaning(a)) <= Len(Meaning(b))
         /\ Agree(Meaning(a), Meaning(b), Len(Meaning(a)))
<1>1. /\ PadsOf(a) \in 0..2 /\ Len(a) % 4 = 0 /\ Len(a) \in Nat
      /\ Meaning(a) \in Seq(Octets) /\ Len(Meaning(a)) = 3 * (Len(a) \div 4) - PadsOf(a)
      /\ \A i \in 1..Len(Meaning(a)) : Meaning(a)[i] = OctetAt(a, i)
  BY MeaningFacts
<1>2. /\ PadsOf(b) \in 0..2 /\ Len(b) % 4 = 0 /\ Len(b) \in Nat
      /\ Meaning(b) \in Seq(Octets) /\ Len(Meaning(b)) = 3 * (Len(b) \div 4) - PadsOf(b)
      /\ \A i \in 1..Len(Meaning(b)) : Meaning(b)[i] = OctetAt(b, i)
  BY MeaningFacts
<1>3. CASE Len(a) = Len(b)
  <2>1. a = b
    BY <1>3, SeqEqual DEF Agree
  <2>2. QED
    BY <1>1, <2>1 DEF Agree
<1>4. CASE Len(a) # Len(b)
  <2>1. Len(a) + 4 <= Len(b)
    BY <1>1, <1>2, <1>4
  <2>2. Len(Meaning(a)) <= Len(Meaning(b))
    <3>1. (Len(a) \div 4) + 1 <= Len(b) \div 4 /\ Len(a) \div 4 \in Nat /\ Len(b) \div 4 \in Nat
      BY <1>1, <1>2, <2>1
    <3>2. /\ PadsOf(a) \in 0..2 /\ Len(Meaning(a)) = 3 * (Len(a) \div 4) - PadsOf(a)
          /\ PadsOf(b) \in 0..2 /\ Len(Meaning(b)) = 3 * (Len(b) \div 4) - PadsOf(b)
      BY <1>1, <1>2
    <3>3. QED
      BY <3>1, <3>2
  <2>3. ASSUME NEW i \in 1..Len(Meaning(a))
        PROVE  Meaning(a)[i] = Meaning(b)[i]
    <3>1. i \in Nat \ {0} /\ 4 * i <= 3 * Len(a)
      BY <1>1
    <3>2. ASSUME NEW u \in Nat, u < 4 * i
          PROVE  UnitAt(a, u) = UnitAt(b, u)
      <4>1. (u \div 3) + 1 \in 1..Len(a)
        BY <1>1, <3>1, <3>2
      <4>2. QED
        BY <4>1 DEF Agree, UnitAt
    <3>3. OctetAt(a, i) = OctetAt(b, i)
      <4> DEFINE u == 4 * (i - 1)
      <4>1. u \in Nat /\ u + 3 < 4 * i
        BY <3>1
      <4> HIDE DEF u
      <4>2. /\ UnitAt(a, u) = UnitAt(b, u) /\ UnitAt(a, u + 1) = UnitAt(b, u + 1)
            /\ UnitAt(a, u + 2) = UnitAt(b, u + 2) /\ UnitAt(a, u + 3) = UnitAt(b, u + 3)
        BY <3>1, <3>2, <4>1
      <4>3. QED
        BY <4>2 DEF OctetAt, u
    <3>4. i \in 1..Len(Meaning(b))
      BY <1>1, <1>2, <2>2
    <3>5. QED
      BY <1>1, <1>2, <3>3, <3>4
  <2>4. QED
    BY <2>2, <2>3 DEF Agree
<1>5. QED
  BY <1>3, <1>4

(* A good quartet behind a text without padding. *)
LEMMA ValidAppends ==
  ASSUME NEW a \in Seq(Chars), Valid(a), \A i \in 1..Len(a) : a[i] # Pad,
         NEW q \in Seq(Chars), Len(q) = 4, QuartetOK(q)
  PROVE  /\ a \o q \in Seq(Chars) /\ Len(a \o q) = Len(a) + 4
         /\ Agree(a, a \o q, Len(a))
         /\ \A j \in 1..4 : (a \o q)[Len(a) + j] = q[j]
         /\ Valid(a \o q)
         /\ PadsOf(a \o q) = IF q[3] = Pad THEN 2 ELSE IF q[4] = Pad THEN 1 ELSE 0
<1> DEFINE b == a \o q
           n == Len(a)
<1>1. a \in Seq(Chars) /\ q \in Seq(Chars)
  OBVIOUS
<1>2. /\ b \in Seq(Chars) /\ Len(b) = n + Len(q)
      /\ \A i \in 1..n : b[i] = a[i]
      /\ \A j \in 1..Len(q) : b[n + j] = q[j]
  <2>1. b \in Seq(Chars) /\ Len(b) = n + Len(q)
    BY <1>1, ConcatFacts
  <2>2. \A i \in 1..n : b[i] = a[i]
    BY <1>1, ConcatFacts
  <2>3. \A j \in 1..Len(q) : b[n + j] = q[j]
    BY ONLY <1>1, ConcatFacts
  <2>4. QED
    BY <2>1, <2>2, <2>3
<1>3. n \in Nat /\ n % 4 = 0
  BY DEF Valid
<1> HIDE DEF b, n
<1>4. Agree(a, b, n) /\ \A j \in 1..4 : b[n + j] = q[j]
  BY <1>2 DEF Agree
<1>5. /\ q[1] # Junk /\ q[2] # Junk /\ q[3] # Junk /\ q[4] # Junk
      /\ q[1] # Pad /\ q[2] # Pad /\ (q[3] = Pad => q[4] = Pad)
  BY DEF QuartetOK, Pad, Junk
<1>6. b[n + 1] = q[1] /\ b[n + 2] = q[2] /\ b[n + 3] = q[3] /\ b[n + 4] = q[4]
  BY <1>4
<1>7. Valid(b)
  <2>1. ASSUME NEW i \in 1..Len(b)
        PROVE  /\ b[i] # Junk
               /\ b[i] = Pad => i > Len(b) - 2 /\ b[Len(b)] = Pad
    <3>1. CASE i <= n
      <4>1. i \in 1..n /\ b[i] = a[i]
        BY <1>2, <1>3, <3>1
      <4>2. a[i] # Junk /\ a[i] # Pad
        BY <4>1 DEF Valid, n
      <4>3. QED
        BY <4>1, <4>2
    <3>2. CASE ~(i <= n)
      <4>1. i = n + 1 \/ i = n + 2 \/ i = n + 3 \/ i = n + 4
        BY <1>2, <1>3, <3>2
      <4>2. Len(b) = n + 4
        BY <1>2
      <4>3. QED
        BY <1>3, <1>5, <1>6, <4>1, <4>2
    <3>3. QED
      BY <3>1, <3>2
  <2>2. Len(b) % 4 = 0
    BY <1>2, <1>3
  <2>3. QED
    BY <2>1, <2>2 DEF Valid
<1>8. PadsOf(b) = IF q[3] = Pad THEN 2 ELSE IF q[4] = Pad THEN 1 ELSE 0
  <2>1. Len(b) = n + 4 /\ Len(b) - 1 = n + 3 /\ b # << >>
    BY <1>2, <1>3
  <2>2. QED
    BY <1>5, <1>6, <2>1 DEF PadsOf
<1>9. QED
  BY <1>2, <1>4, <1>7, <1>8 DEF b, n

(* The three units of a digit. *)
LEMMA DigitUnits ==
  ASSUME NEW d \in Digits
  PROVE  LET x == (d \div (Q * Q)) % Q
             y == (d \div Q) % Q
             z == d % Q
         IN  /\ x \in 0..(Q - 1) /\ y \in 0..(Q - 1) /\ z \in 0..(Q - 1)
             /\ d = x * (Q * Q) + y * Q + z
             /\ d \div (Q * Q) = x
             /\ d \div Q = x * Q + y
             /\ d % (Q * Q) = y * Q + z
<1>1. CASE Q = 2
  BY <1>1 DEF Digits
<1>2. CASE Q = 4
  BY <1>2 DEF Digits
<1>3. QED
  BY <1>1, <1>2, QAssumption

(* The units that character m + 1 of a text stands for. *)
LEMMA CharUnits ==
  ASSUME NEW t \in Seq(Chars), NEW m \in Nat, m < Len(t)
  PROVE  /\ UnitAt(t, 3 * m) = (t[m + 1] \div (Q * Q)) % Q
         /\ UnitAt(t, 3 * m + 1) = (t[m + 1] \div Q) % Q
         /\ UnitAt(t, 3 * m + 2) = t[m + 1] % Q
<1>1. /\ 3 * m \in Nat /\ 3 * m < 3 * Len(t)
      /\ 3 * m + 1 \in Nat /\ 3 * m + 1 < 3 * Len(t)
      /\ 3 * m + 2 \in Nat /\ 3 * m + 2 < 3 * Len(t)
  OBVIOUS
<1>2. /\ (3 * m) \div 3 = m /\ (3 * m) % 3 = 0
      /\ (3 * m + 1) \div 3 = m /\ (3 * m + 1) % 3 = 1
      /\ (3 * m + 2) \div 3 = m /\ (3 * m + 2) % 3 = 2
  OBVIOUS
<1>3. UnitAt(t, 3 * m) = (t[m + 1] \div (Q * Q)) % Q
  BY <1>1, <1>2, UnitFacts
<1>4. UnitAt(t, 3 * m + 1) = (t[m + 1] \div Q) % Q
  <2>1. PICK u \in Nat : u = 3 * m + 1
    BY <1>1
  <2>2. u < 3 * Len(t) /\ u \div 3 = m /\ u % 3 = 1
    BY <1>1, <1>2, <2>1
  <2>3. UnitAt(t, u) = (t[m + 1] \div Q) % Q
    BY <2>2, UnitFacts
  <2>4. QED
    BY <2>1, <2>3
<1>5. UnitAt(t, 3 * m + 2) = t[m + 1] % Q
  <2>1. PICK u \in Nat : u = 3 * m + 2
    BY <1>1
  <2>2. u < 3 * Len(t) /\ u \div 3 = m /\ u % 3 = 2
    BY <1>1, <1>2, <2>1
  <2>3. UnitAt(t, u) = t[m + 1] % Q
    BY <2>2, UnitFacts
  <2>4. QED
    BY <2>1, <2>3
<1>6. QED
  BY <1>3, <1>4, <1>5

(* Sums of units, carried from one digit to the next. *)
LEMMA CarrySums ==
  ASSUME NEW x \in Nat, NEW y \in Nat, NEW z \in Nat, NEW v \in Nat
  PROVE  LET sum == x * (Q * Q * Q) + y * (Q * Q) + z * Q + v
         IN  /\ sum = (x * (Q * Q) + y * Q + z) * Q + v
             /\ sum = (x * Q + y) * (Q * Q) + (z * Q + v)
             /\ sum = x * (Q * Q * Q) + (y * (Q * Q) + z * Q + v)
<1>1. CASE Q = 2
  <2>1. LET sum == x * 8 + y * 4 + z * 2 + v
        IN  /\ sum = (x * 4 + y * 2 + z) * 2 + v
            /\ sum = (x * 2 + y) * 4 + (z * 2 + v)
            /\ sum = x * 8 + (y * 4 + z * 2 + v)
    OBVIOUS
  <2>2. Q * Q = 4 /\ Q * Q * Q = 8 /\ Q = 2
    BY <1>1
  <2>3. QED
    BY <2>1, <2>2
<1>2. CASE Q = 4
  <2>1. LET sum == x * 64 + y * 16 + z * 4 + v
        IN  /\ sum = (x * 16 + y * 4 + z) * 4 + v
            /\ sum = (x * 4 + y) * 16 + (z * 4 + v)
            /\ sum = x * 64 + (y * 16 + z * 4 + v)
    OBVIOUS
  <2>2. Q * Q = 16 /\ Q * Q * Q = 64 /\ Q = 4
    BY <1>2
  <2>3. QED
    BY <2>1, <2>2
<1>3. QED
  BY <1>1, <1>2, QAssumption

(* The three octets of the quartet that begins at character 4 k + 1. *)
LEMMA QuartetOctets ==
  ASSUME NEW t \in Seq(Chars), NEW k \in Nat, 4 * k + 4 <= Len(t)
  PROVE  /\ t[4 * k + 1] \in Digits /\ t[4 * k + 2] \in Digits =>
              OctetAt(t, 3 * k + 1) = t[4 * k + 1] * Q + t[4 * k + 2] \div (Q * Q)
         /\ t[4 * k + 2] \in Digits /\ t[4 * k + 3] \in Digits =>
              OctetAt(t, 3 * k + 2)
                = (t[4 * k + 2] % (Q * Q)) * (Q * Q) + t[4 * k + 3] \div Q
         /\ t[4 * k + 3] \in Digits /\ t[4 * k + 4] \in Digits =>
              OctetAt(t, 3 * k + 3) = (t[4 * k + 3] % Q) * (Q * Q * Q) + t[4 * k + 4]
<1> DEFINE U(u) == UnitAt(t, u)
           C(j) == t[4 * k + j]
<1>1. /\ U(12 * k) = (C(1) \div (Q * Q)) % Q /\ U(12 * k + 1) = (C(1) \div Q) % Q
      /\ U(12 * k + 2) = C(1) % Q
  <2>1. 4 * k \in Nat /\ 4 * k < Len(t) /\ 3 * (4 * k) = 12 * k
    OBVIOUS
  <2>2. QED
    BY <2>1, CharUnits
<1>2. /\ U(12 * k + 3) = (C(2) \div (Q * Q)) % Q /\ U(12 * k + 4) = (C(2) \div Q) % Q
      /\ U(12 * k + 5) = C(2) % Q
  <2>1. /\ 4 * k + 1 \in Nat /\ 4 * k + 1 < Len(t) /\ 4 * k + 1 + 1 = 4 * k + 2
        /\ 3 * (4 * k + 1) = 12 * k + 3
        /\ 3 * (4 * k + 1) + 1 = 12 * k + 4 /\ 3 * (4 * k + 1) + 2 = 12 * k + 5
    OBVIOUS
  <2>2. QED
    BY <2>1, CharUnits
<1>3. /\ U(12 * k + 6) = (C(3) \div (Q * Q)) % Q /\ U(12 * k + 7) = (C(3) \div Q) % Q
      /\ U(12 * k + 8) = C(3) % Q
  <2>1. /\ 4 * k + 2 \in Nat /\ 4 * k + 2 < Len(t) /\ 4 * k + 2 + 1 = 4 * k + 3
        /\ 3 * (4 * k + 2) = 12 * k + 6
        /\ 3 * (4 * k + 2) + 1 = 12 * k + 7 /\ 3 * (4 * k + 2) + 2 = 12 * k + 8
    OBVIOUS
  <2>2. QED
    BY <2>1, CharUnits
<1>4. /\ U(12 * k + 9) = (C(4) \div (Q * Q)) % Q /\ U(12 * k + 10) = (C(4) \div Q) % Q
      /\ U(12 * k + 11) = C(4) % Q
  <2>1. /\ 4 * k + 3 \in Nat /\ 4 * k + 3 < Len(t) /\ 4 * k + 3 + 1 = 4 * k + 4
        /\ 3 * (4 * k + 3) = 12 * k + 9
        /\ 3 * (4 * k + 3) + 1 = 12 * k + 10 /\ 3 * (4 * k + 3) + 2 = 12 * k + 11
    OBVIOUS
  <2>2. QED
    BY <2>1, CharUnits
<1>5. /\ OctetAt(t, 3 * k + 1) = U(12 * k) * (Q * Q * Q) + U(12 * k + 1) * (Q * Q)
                                   + U(12 * k + 2) * Q + U(12 * k + 3)
      /\ OctetAt(t, 3 * k + 2) = U(12 * k + 4) * (Q * Q * Q) + U(12 * k + 5) * (Q * Q)
                                   + U(12 * k + 6) * Q + U(12 * k + 7)
      /\ OctetAt(t, 3 * k + 3) = U(12 * k + 8) * (Q * Q * Q) + U(12 * k + 9) * (Q * Q)
                                   + U(12 * k + 10) * Q + U(12 * k + 11)
  <2>1. /\ 4 * (3 * k + 1 - 1) = 12 * k
        /\ 4 * (3 * k + 2 - 1) = 12 * k + 4 /\ 4 * (3 * k + 2 - 1) + 1 = 12 * k + 5
        /\ 4 * (3 * k + 2 - 1) + 2 = 12 * k + 6 /\ 4 * (3 * k + 2 - 1) + 3 = 12 * k + 7
        /\ 4 * (3 * k + 3 - 1) = 12 * k + 8 /\ 4 * (3 * k + 3 - 1) + 1 = 12 * k + 9
        /\ 4 * (3 * k + 3 - 1) + 2 = 12 * k + 10 /\ 4 * (3 * k + 3 - 1) + 3 = 12 * k + 11
    OBVIOUS
  <2>2. QED
    BY <2>1 DEF OctetAt
<1>q. Q \in Nat /\ 0..(Q - 1) \subseteq Nat
  BY QAssumption
<1> HIDE DEF U, C
<1>d. ASSUME NEW d \in Digits
      PROVE  LET x == (d \div (Q * Q)) % Q
                 y == (d \div Q) % Q
                 z == d % Q
             IN  /\ x \in Nat /\ y \in Nat /\ z \in Nat
                 /\ d = x * (Q * Q) + y * Q + z
                 /\ d \div (Q * Q) = x
                 /\ d \div Q = x * Q + y
                 /\ d % (Q * Q) = y * Q + z
  BY <1>q, DigitUnits
<1>6. ASSUME C(1) \in Digits, C(2) \in Digits
      PROVE  OctetAt(t, 3 * k + 1) = C(1) * Q + C(2) \div (Q * Q)
  <2>1. /\ U(12 * k) \in Nat /\ U(12 * k + 1) \in Nat /\ U(12 * k + 2) \in Nat
        /\ C(1) = U(12 * k) * (Q * Q) + U(12 * k + 1) * Q + U(12 * k + 2)
    BY <1>1, <1>6, <1>d
  <2>2. U(12 * k + 3) \in Nat /\ C(2) \div (Q * Q) = U(12 * k + 3)
    BY <1>2, <1>6, <1>d
  <2>3. QED
    <3> DEFINE x == U(12 * k)
               y == U(12 * k + 1)
               z == U(12 * k + 2)
               v == U(12 * k + 3)
    <3>1. x \in Nat /\ y \in Nat /\ z \in Nat /\ v \in Nat
      BY <2>1, <2>2
    <3>2. OctetAt(t, 3 * k + 1) = x * (Q * Q * Q) + y * (Q * Q) + z * Q + v
      BY <1>5
    <3> HIDE DEF x, y, z, v
    <3>3. LET sum == x * (Q * Q * Q) + y * (Q * Q) + z * Q + v
          IN  /\ sum = (x * (Q * Q) + y * Q + z) * Q + v
              /\ sum = (x * Q + y) * (Q * Q) + (z * Q + v)
              /\ sum = x * (Q * Q * Q) + (y * (Q * Q) + z * Q + v)
      BY <3>1, CarrySums
    <3>4. QED
      BY <2>1, <2>2, <3>2, <3>3 DEF x, y, z, v
<1>7. ASSUME C(2) \in Digits, C(3) \in Digits
      PROVE  OctetAt(t, 3 * k + 2) = (C(2) % (Q * Q)) * (Q * Q) + C(3) \div Q
  <2>1. /\ U(12 * k + 4) \in Nat /\ U(12 * k + 5) \in Nat
        /\ C(2) % (Q * Q) = U(12 * k + 4) * Q + U(12 * k + 5)
    BY <1>2, <1>7, <1>d
  <2>2. /\ U(12 * k + 6) \in Nat /\ U(12 * k + 7) \in Nat
        /\ C(3) \div Q = U(12 * k + 6) * Q + U(12 * k + 7)
    BY <1>3, <1>7, <1>d
  <2>3. QED
    <3> DEFINE x == U(12 * k + 4)
               y == U(12 * k + 5)
               z == U(12 * k + 6)
               v == U(12 * k + 7)
    <3>1. x \in Nat /\ y \in Nat /\ z \in Nat /\ v \in Nat
      BY <2>1, <2>2
    <3>2. OctetAt(t, 3 * k + 2) = x * (Q * Q * Q) + y * (Q * Q) + z * Q + v
      BY <1>5
    <3> HIDE DEF x, y, z, v
    <3>3. LET sum == x * (Q * Q * Q) + y * (Q * Q) + z * Q + v
          IN  /\ sum = (x * (Q * Q) + y * Q + z) * Q + v
              /\ sum = (x * Q + y) * (Q * Q) + (z * Q + v)
              /\ sum = x * (Q * Q * Q) + (y * (Q * Q) + z * Q + v)
      BY <3>1, CarrySums
    <3>4. QED
      BY <2>1, <2>2, <3>2, <3>3 DEF x, y, z, v
<1>8. ASSUME C(3) \in Digits, C(4) \in Digits
      PROVE  OctetAt(t, 3 * k + 3) = (C(3) % Q) * (Q * Q * Q) + C(4)
  <2>1. U(12 * k + 8) \in Nat /\ C(3) % Q = U(12 * k + 8)
    BY <1>3, <1>8, <1>d
  <2>2. /\ U(12 * k + 9) \in Nat /\ U(12 * k + 10) \in Nat /\ U(12 * k + 11) \in Nat
        /\ C(4) = U(12 * k + 9) * (Q * Q) + U(12 * k + 10) * Q + U(12 * k + 11)
    BY <1>4, <1>8, <1>d
  <2>3. QED
    <3> DEFINE x == U(12 * k + 8)
               y == U(12 * k + 9)
               z == U(12 * k + 10)
               v == U(12 * k + 11)
    <3>1. x \in Nat /\ y \in Nat /\ z \in Nat /\ v \in Nat
      BY <2>1, <2>2
    <3>2. OctetAt(t, 3 * k + 3) = x * (Q * Q * Q) + y * (Q * Q) + z * Q + v
      BY <1>5
    <3> HIDE DEF x, y, z, v
    <3>3. LET sum == x * (Q * Q * Q) + y * (Q * Q) + z * Q + v
          IN  /\ sum = (x * (Q * Q) + y * Q + z) * Q + v
              /\ sum = (x * Q + y) * (Q * Q) + (z * Q + v)
              /\ sum = x * (Q * Q * Q) + (y * (Q * Q) + z * Q + v)
      BY <3>1, CarrySums
    <3>4. QED
      BY <2>1, <2>2, <3>2, <3>3 DEF x, y, z, v
<1>9. QED
  BY <1>6, <1>7, <1>8 DEF C

(* What a good quartet adds to the meaning of a text without padding is what
   the decoder makes of it. *)
LEMMA MeaningAppends ==
  ASSUME NEW a \in Seq(Chars), Valid(a), \A i \in 1..Len(a) : a[i] # Pad,
         NEW q \in Seq(Chars), Len(q) = 4, QuartetOK(q)
  PROVE  Meaning(a \o q) = Meaning(a) \o DecodeQuartet(q)
<1> DEFINE b == a \o q
           n == Len(a)
           k == n \div 4
           d == DecodeQuartet(q)
<1>1. /\ b \in Seq(Chars) /\ Len(b) = n + 4 /\ Agree(a, b, n) /\ Valid(b)
      /\ \A j \in 1..4 : b[n + j] = q[j]
      /\ PadsOf(b) = IF q[3] = Pad THEN 2 ELSE IF q[4] = Pad THEN 1 ELSE 0
  BY ValidAppends
<1> HIDE DEF b
<1>2. /\ n \in Nat /\ n % 4 = 0 /\ Meaning(a) \in Seq(Octets)
      /\ Len(Meaning(a)) = 3 * k - PadsOf(a)
  BY MeaningFacts
<1>3. PadsOf(a) = 0
  <2>1. a # << >> => Len(a) \in 1..Len(a)
    OBVIOUS
  <2>2. QED
    BY <2>1 DEF PadsOf
<1>4. k \in Nat /\ n = 4 * k /\ Len(Meaning(a)) = 3 * k
  <2>1. k \in Nat /\ n = 4 * k
    BY <1>2
  <2>2. QED
    BY <1>2, <1>3, <2>1
<1>5. /\ Meaning(b) \in Seq(Octets)
      /\ Len(Meaning(b)) = 3 * k + 3 - PadsOf(b)
      /\ \A i \in 1..Len(Meaning(b)) : Meaning(b)[i] = OctetAt(b, i)
  <2>1. /\ Meaning(b) \in Seq(Octets)
        /\ Len(Meaning(b)) = 3 * (Len(b) \div 4) - PadsOf(b)
        /\ \A i \in 1..Len(Meaning(b)) : Meaning(b)[i] = OctetAt(b, i)
    BY <1>1, MeaningFacts
  <2>2. Len(b) \div 4 = k + 1
    BY <1>1, <1>4
  <2> HIDE DEF k
  <2>3. 3 * (k + 1) = 3 * k + 3
    BY <1>4
  <2>4. 3 * (Len(b) \div 4) = 3 * k + 3
    BY <2>2, <2>3
  <2>5. Len(Meaning(b)) = 3 * (Len(b) \div 4) - PadsOf(b)
    BY <2>1
  <2>6. Len(Meaning(b)) = 3 * k + 3 - PadsOf(b)
    <3>1. k \in Nat /\ PadsOf(b) \in Int
      BY <1>1, <1>4 DEF Pad
    <3>2. QED
      BY <2>4, <2>5, <3>1
  <2>7. QED
    BY <2>1, <2>6
<1>6. Agree(Meaning(a), Meaning(b), 3 * k)
  <2>1. Len(a) <= Len(b)
    BY <1>1, <1>2
  <2>2. Agree(Meaning(a), Meaning(b), Len(Meaning(a)))
    BY <1>1, <2>1, MeaningGrows
  <2>3. QED
    BY <1>4, <2>2
<1> HIDE DEF k, n
<1>7. /\ q[1] \in Digits /\ q[2] \in Digits
      /\ q[3] \in Digits \cup {Pad} /\ q[4] \in Digits \cup {Pad}
      /\ q[3] = Pad => q[4] = Pad
  BY QuartetDigits
<1>8. /\ b[4 * k + 1] = q[1] /\ b[4 * k + 2] = q[2]
      /\ b[4 * k + 3] = q[3] /\ b[4 * k + 4] = q[4]
  BY <1>1, <1>4
<1>9. /\ OctetAt(b, 3 * k + 1) = q[1] * Q + q[2] \div (Q * Q)
      /\ q[3] # Pad => OctetAt(b, 3 * k + 2) = (q[2] % (Q * Q)) * (Q * Q) + q[3] \div Q
      /\ q[3] # Pad /\ q[4] # Pad =>
           OctetAt(b, 3 * k + 3) = (q[3] % Q) * (Q * Q * Q) + q[4]
  <2>1. 4 * k + 4 <= Len(b) /\ k \in Nat
    BY <1>1, <1>4
  <2>2. /\ b[4 * k + 1] \in Digits /\ b[4 * k + 2] \in Digits =>
             OctetAt(b, 3 * k + 1) = b[4 * k + 1] * Q + b[4 * k + 2] \div (Q * Q)
        /\ b[4 * k + 2] \in Digits /\ b[4 * k + 3] \in Digits =>
             OctetAt(b, 3 * k + 2)
               = (b[4 * k + 2] % (Q * Q)) * (Q * Q) + b[4 * k + 3] \div Q
        /\ b[4 * k + 3] \in Digits /\ b[4 * k + 4] \in Digits =>
             OctetAt(b, 3 * k + 3) = (b[4 * k + 3] % Q) * (Q * Q * Q) + b[4 * k + 4]
    BY <1>1, <2>1, QuartetOctets
  <2>3. QED
    BY <1>7, <1>8, <2>2
<1>10. /\ d \in Seq(Octets)
       /\ Len(d) = IF q[3] = Pad THEN 1 ELSE IF q[4] = Pad THEN 2 ELSE 3
       /\ d[1] = q[1] * Q + q[2] \div (Q * Q)
       /\ q[3] # Pad => d[2] = (q[2] % (Q * Q)) * (Q * Q) + q[3] \div Q
       /\ q[3] # Pad /\ q[4] # Pad => d[3] = (q[3] % Q) * (Q * Q * Q) + q[4]
  <2>1. d \in Seq(Octets)
    BY DecodeYieldsOctets
  <2> DEFINE x == q[1] * Q + q[2] \div (Q * Q)
             y == (q[2] % (Q * Q)) * (Q * Q) + q[3] \div Q
             z == (q[3] % Q) * (Q * Q * Q) + q[4]
  <2>2. d = IF q[3] = Pad THEN <<x>> ELSE IF q[4] = Pad THEN <<x, y>> ELSE <<x, y, z>>
    BY DEF DecodeQuartet
  <2> HIDE DEF d, x, y, z
  <2>3. /\ Len(d) = IF q[3] = Pad THEN 1 ELSE IF q[4] = Pad THEN 2 ELSE 3
        /\ d[1] = x
        /\ q[3] # Pad => d[2] = y
        /\ q[3] # Pad /\ q[4] # Pad => d[3] = z
    BY <2>2
  <2>4. QED
    BY <2>1, <2>3 DEF x, y, z
<1> HIDE DEF d
<1>11. \A j \in 1..Len(d) : d[j] = OctetAt(b, 3 * k + j)
  <2>1. CASE q[3] = Pad
    BY <1>9, <1>10, <2>1
  <2>2. CASE q[3] # Pad /\ q[4] = Pad
    BY <1>9, <1>10, <2>2
  <2>3. CASE q[3] # Pad /\ q[4] # Pad
    BY <1>9, <1>10, <2>3
  <2>4. QED
    BY <2>1, <2>2, <2>3
<1>12. Len(Meaning(b)) = 3 * k + Len(d) /\ Len(d) \in Nat
  <2>1. CASE q[3] = Pad
    BY <1>1, <1>4, <1>5, <1>7, <1>10, <2>1
  <2>2. CASE q[3] # Pad /\ q[4] = Pad
    BY <1>1, <1>4, <1>5, <1>10, <2>2
  <2>3. CASE q[3] # Pad /\ q[4] # Pad
    BY <1>1, <1>4, <1>5, <1>10, <2>3
  <2>4. QED
    BY <2>1, <2>2, <2>3
<1>13. /\ Meaning(a) \o d \in Seq(Octets)
       /\ Len(Meaning(a) \o d) = 3 * k + Len(d)
       /\ \A i \in 1..(3 * k) : (Meaning(a) \o d)[i] = Meaning(a)[i]
       /\ \A j \in 1..Len(d) : (Meaning(a) \o d)[3 * k + j] = d[j]
  <2> DEFINE m == Meaning(a)
  <2>1. m \in Seq(Octets) /\ d \in Seq(Octets) /\ Len(m) = 3 * k
    BY <1>2, <1>4, <1>10
  <2> HIDE DEF m
  <2>2. /\ m \o d \in Seq(Octets)
        /\ Len(m \o d) = Len(m) + Len(d)
        /\ \A i \in 1..Len(m) : (m \o d)[i] = m[i]
        /\ \A j \in 1..Len(d) : (m \o d)[Len(m) + j] = d[j]
    <3>1. m \o d \in Seq(Octets) /\ Len(m \o d) = Len(m) + Len(d)
      BY ONLY <2>1, ConcatFacts
    <3>2. \A i \in 1..Len(m) : (m \o d)[i] = m[i]
      BY ONLY <2>1, ConcatFacts
    <3>3. \A j \in 1..Len(d) : (m \o d)[Len(m) + j] = d[j]
      BY ONLY <2>1, ConcatFacts
    <3>4. QED
      BY <3>1, <3>2, <3>3
  <2>3. QED
    BY <2>1, <2>2 DEF m
<1>14. ASSUME NEW i \in 1..Len(Meaning(b))
       PROVE  (Meaning(a) \o d)[i] = Meaning(b)[i]
  <2>1. CASE i <= 3 * k
    <3>1. i \in 1..(3 * k)
      BY <1>4, <2>1
    <3>2. QED
      BY <1>6, <1>13, <3>1 DEF Agree
  <2>2. CASE ~(i <= 3 * k)
    <3>1. PICK j \in 1..Len(d) : i = 3 * k + j
      <4>1. i - 3 * k \in 1..Len(d) /\ i = 3 * k + (i - 3 * k)
        BY <1>4, <1>12, <2>2
      <4>2. QED
        BY <4>1
    <3>2. (Meaning(a) \o d)[i] = OctetAt(b, i)
      BY <1>11, <1>13, <3>1
    <3>3. QED
      BY <1>5, <3>2
  <2>3. QED
    BY <2>1, <2>2
<1>15. Meaning(b) = Meaning(a) \o d
  <2>1. Len(Meaning(b)) = Len(Meaning(a) \o d)
    BY <1>12, <1>13
  <2>2. QED
    BY <1>5, <1>13, <1>14, <2>1, SeqEqual
<1>16. QED
  BY <1>15 DEF b, d

-----------------------------------------------------------------------------
(* The request body filter                                                 *)

ChainInv ==
  \A i \in 1..Len(in) :
    /\ read <= in[i].end
    /\ in[i].end <= Len(text)
    /\ \A j \in 1..(i - 1) : in[j].end <= in[i].end

RoomInv ==
  /\ Len(pending) <= 3
  /\ pc = "decode" =>
       /\ in # << >>
       /\ SrcLen + 2 <= dst_cap
       /\ 4 * Len(written) <= 3 * (dst_cap + 1 - SrcLen - Len(pending))

IInv == TypeOK /\ ChainInv /\ RoomInv /\ NeverMissized

-----------------------------------------------------------------------------

LEMMA LimitFacts == max_body \in Nat /\ max_body <= MaxSize
  BY RequestAssumption DEF max_body

LEMMA TextFacts ==
  ASSUME TypeOK
  PROVE  text \in Seq(Chars)
  BY RequestAssumption DEF TypeOK

LEMMA InitEstablishes == Init => IInv
<1> SUFFICES ASSUME Init PROVE IInv
  OBVIOUS
<1> USE DEF Init
<1>1. text \in Seq(Chars) BY RequestAssumption
<1>2. TypeOK
  <2>1. read \in 0..Len(text) /\ decoded_request_size \in 0..MaxSize
    BY <1>1, RequestAssumption
  <2>2. /\ in \in Seq(Bufs) /\ out \in Seq(OutBufs) /\ forwarded \in Seq(OutBufs)
        /\ pending \in Seq(Chars) /\ written \in Seq(Octets)
    OBVIOUS
  <2>3. /\ text \in Texts /\ no_buffering \in BOOLEAN
        /\ status = "open" /\ pc = "idle" /\ finished \in BOOLEAN
        /\ dst_cap \in Nat /\ request_finished \in BOOLEAN
        /\ content_length_n \in Nat \cup {-1}
    OBVIOUS
  <2>4. QED BY <2>1, <2>2, <2>3 DEF TypeOK
<1>3. ChainInv BY DEF ChainInv
<1>4. RoomInv BY DEF RoomInv
<1>5. QED BY <1>2, <1>3, <1>4 DEF IInv, NeverMissized

(* A head of the chain, and how much of it is left. *)
LEMMA HeadFacts ==
  ASSUME IInv, in # << >>
  PROVE  /\ Head(in) \in Bufs
         /\ Head(in).end \in Nat
         /\ Head(in).last_buf \in BOOLEAN
         /\ SrcLen \in Nat
         /\ read + SrcLen <= Len(text)
         /\ \A i \in 1..Len(in) : Head(in).end <= in[i].end
<1>1. in \in Seq(Bufs) BY DEF IInv, TypeOK
<1>2. Head(in) = in[1] /\ Head(in) \in Bufs /\ Len(in) >= 1 /\ Len(in) \in Nat
  BY <1>1, TailFacts
<1>3. read <= in[1].end /\ in[1].end <= Len(text)
  BY <1>2 DEF IInv, ChainInv
<1>4. \A i \in 1..Len(in) : in[1].end <= in[i].end
  <2> TAKE i \in 1..Len(in)
  <2>1. CASE i = 1 BY <2>1, <1>2 DEF Bufs
  <2>2. CASE i # 1
    <3>1. 1 \in 1..(i - 1) BY <2>2
    <3>2. QED BY <3>1 DEF IInv, ChainInv
  <2>3. QED BY <2>1, <2>2
<1>5. read \in Nat /\ Len(text) \in Nat
  BY TextFacts DEF IInv, TypeOK
<1>6. QED BY <1>2, <1>3, <1>4, <1>5 DEF SrcLen, Bufs

(* A refusal other than for the room changes nothing that the invariant
   mentions. *)
LEMMA RefuseKeeps ==
  ASSUME IInv,
         NEW why \in {"malformed", "duplicate", "too_large", "no_memory"},
         Refuse(why)
  PROVE  IInv'
<1> USE DEF Refuse, client, decoder, ctx
<1>1. TypeOK' BY DEF IInv, TypeOK
<1>2. ChainInv' BY DEF IInv, ChainInv
<1>3. RoomInv' BY DEF IInv, RoomInv
<1>4. QED BY <1>1, <1>2, <1>3 DEF IInv, NeverMissized

LEMMA BodyFilterKeeps ==
  ASSUME IInv, NEW c \in Chains, RequestBodyFilter(c)
  PROVE  IInv'
<1> USE DEF RequestBodyFilter, client, decoder, ctx
<1>1. read \in Nat /\ read <= Len(text) /\ Len(text) \in Nat
  BY TextFacts DEF IInv, TypeOK
<1>2. /\ c \in Seq(Bufs)
      /\ \A i \in 1..Len(c) :
           /\ read <= c[i].end
           /\ c[i].end <= Len(text)
           /\ \A j \in 1..(i - 1) : c[j].end <= c[i].end
  <2>1. CASE request_finished
    <3>1. PICK again \in BOOLEAN : c = <<[end |-> read, last_buf |-> again]>>
      BY <2>1 DEF Chains
    <3>2. [end |-> read, last_buf |-> again] \in Bufs
      BY <1>1 DEF Bufs
    <3>3. QED BY <3>1, <3>2, <1>1
  <2>2. CASE ~request_finished
    <3>1. PICK m \in 1..MaxBufs :
            c \in [1..m -> [end : read..Len(text), last_buf : BOOLEAN]]
      BY <2>2 DEF Chains
    <3>2. m \in Nat BY RequestAssumption
    <3>3. [end : read..Len(text), last_buf : BOOLEAN] \subseteq Bufs
      BY <1>1 DEF Bufs
    <3>4. c \in Seq(Bufs) /\ Len(c) = m
      BY <3>1, <3>2, <3>3
    <3>5. \A i \in 1..Len(c) : read <= c[i].end /\ c[i].end <= Len(text)
      BY <3>1, <3>4, <1>1
    <3>6. \A i \in 1..Len(c) : \A j \in 1..(i - 1) : c[j].end <= c[i].end
      BY <2>2 DEF Chains
    <3>7. QED BY <3>4, <3>5, <3>6
  <2>3. QED BY <2>1, <2>2
<1>3. TypeOK'
  <2>1. in' \in Seq(Bufs) /\ out' = << >> BY <1>2
  <2>2. QED BY <2>1 DEF IInv, TypeOK
<1>4. ChainInv' BY <1>2 DEF ChainInv
<1>5. RoomInv' BY DEF IInv, RoomInv
<1>6. QED BY <1>3, <1>4, <1>5 DEF IInv, NeverMissized

LEMMA TakeBufferKeeps ==
  ASSUME IInv, TakeBuffer
  PROVE  IInv'
<1> USE DEF TakeBuffer, Room, client, decoder, ctx
<1>1. SrcLen \in Nat BY HeadFacts
<1>2. SrcLen' = SrcLen BY DEF SrcLen
<1>3. dst_cap' \in Nat /\ written' = << >> BY <1>1
<1>4. TypeOK' BY <1>3 DEF IInv, TypeOK
<1>5. ChainInv' BY DEF IInv, ChainInv
<1>6. RoomInv'
  <2>1. Len(pending) \in Nat /\ Len(pending) <= 3
    BY DEF IInv, TypeOK, RoomInv
  <2>2. dst_cap' + 1 - SrcLen' - Len(pending') >= 0
    BY <2>1, <1>1, <1>2
  <2>3. Len(written') = 0 BY <1>3
  <2>4. SrcLen' + 2 <= dst_cap' BY <1>1, <1>2
  <2>5. 4 * Len(written') <= 3 * (dst_cap' + 1 - SrcLen' - Len(pending'))
    BY <2>1, <2>3, <1>1, <1>2
  <2>6. QED BY <2>1, <2>4, <2>5 DEF RoomInv
<1>7. QED BY <1>4, <1>5, <1>6 DEF IInv, NeverMissized

-----------------------------------------------------------------------------

(* The quartet that the next character completes, or brings nearer. *)
LEMMA QuartetFacts ==
  ASSUME IInv, Decoding
  PROVE  /\ in # << >> /\ SrcLen \in Nat \ {0}
         /\ read + 1 \in 0..Len(text)
         /\ Quartet \in Seq(Chars)
         /\ Len(pending) = Len(Quartet) - 1
         /\ Len(pending) \in 0..3
<1>1. in # << >> BY DEF IInv, RoomInv, Decoding
<1>2. SrcLen \in Nat /\ read + SrcLen <= Len(text) BY <1>1, HeadFacts
<1>3. SrcLen # 0 BY DEF Decoding
<1>4. text \in Seq(Chars) /\ read \in Nat /\ pending \in Seq(Chars)
  BY TextFacts DEF IInv, TypeOK
<1>5. read + 1 \in 1..Len(text) BY <1>2, <1>3, <1>4
<1>6. text[read + 1] \in Chars BY <1>4, <1>5
<1>7. Quartet \in Seq(Chars) /\ Len(pending) = Len(Quartet) - 1
  <2>1. PICK c \in Chars : c = text[read + 1] BY <1>6
  <2>2. Quartet = Append(pending, c) BY <2>1 DEF Quartet
  <2>3. /\ Append(pending, c) \in Seq(Chars)
        /\ Len(Append(pending, c)) = Len(pending) + 1
        /\ Len(pending) \in Nat
    BY <1>4, AppendProperties
  <2>4. Len(pending) = Len(Append(pending, c)) - 1 BY <2>3
  <2>5. QED BY <2>2, <2>3, <2>4
<1>8. Len(pending) \in 0..3
  <2>1. PICK n \in Nat : n = Len(pending) BY <1>4
  <2>2. n <= 3 BY <2>1 DEF IInv, RoomInv
  <2>3. n \in 0..3 BY <2>2
  <2>4. QED BY <2>1, <2>3
<1>9. QED BY <1>1, <1>2, <1>3, <1>5, <1>7, <1>8

(* A turn that takes one character leaves the chain in order. *)
LEMMA ReadKeepsChain ==
  ASSUME IInv, Decoding, read' = read + 1, UNCHANGED <<in, text>>
  PROVE  ChainInv' /\ SrcLen' = SrcLen - 1
<1>1. in # << >> /\ SrcLen >= 1 BY QuartetFacts
<1>2. /\ Head(in).end \in Nat
      /\ \A i \in 1..Len(in) : Head(in).end <= in[i].end
  BY <1>1, HeadFacts
<1>3. read \in Nat /\ in \in Seq(Bufs) BY TextFacts DEF IInv, TypeOK
<1>4. read + 1 <= Head(in).end
  <2>1. PICK e \in Nat : e = Head(in).end BY <1>2
  <2>2. e - read >= 1 BY <1>1, <2>1 DEF SrcLen
  <2>3. QED BY <2>1, <2>2, <1>3
<1>5. \A i \in 1..Len(in) : in[i].end \in Nat
  <2>1. \A i \in 1..Len(in) : in[i] \in Bufs BY <1>3
  <2>2. QED BY <2>1 DEF Bufs
<1>6. \A i \in 1..Len(in) : read + 1 <= in[i].end
  BY <1>2, <1>3, <1>4, <1>5
<1>7. ChainInv' BY <1>6 DEF IInv, ChainInv
<1>8. SrcLen' = SrcLen - 1 BY <1>2, <1>3 DEF SrcLen
<1>9. QED BY <1>7, <1>8

LEMMA ReadCharKeeps ==
  ASSUME IInv, ReadChar
  PROVE  IInv'
<1> USE DEF ReadChar, client, ctx
<1>1. /\ in # << >> /\ SrcLen \in Nat \ {0}
      /\ read + 1 \in 0..Len(text)
      /\ Quartet \in Seq(Chars)
      /\ Len(pending) = Len(Quartet) - 1
      /\ Len(pending) \in 0..3
  BY QuartetFacts
<1>2. ChainInv' /\ SrcLen' = SrcLen - 1 BY ReadKeepsChain
<1>3. TypeOK' BY <1>1 DEF IInv, TypeOK
<1>4. RoomInv'
  <2>1. Len(pending') <= 3 /\ Len(pending') = Len(pending) + 1
    BY <1>1
  <2>2. dst_cap \in Nat /\ Len(written) \in Nat
    BY DEF IInv, TypeOK
  <2>3. /\ SrcLen + 2 <= dst_cap
        /\ 4 * Len(written) <= 3 * (dst_cap + 1 - SrcLen - Len(pending))
    BY DEF IInv, RoomInv, Decoding
  <2>4. SrcLen' + 2 <= dst_cap' BY <2>2, <2>3, <1>1, <1>2
  <2>5. dst_cap + 1 - SrcLen - Len(pending)
          = dst_cap' + 1 - SrcLen' - Len(pending')
    BY <2>1, <2>2, <1>1, <1>2
  <2>6. 4 * Len(written') <= 3 * (dst_cap' + 1 - SrcLen' - Len(pending'))
    BY <2>3, <2>5
  <2>7. QED BY <1>1, <2>1, <2>4, <2>6 DEF RoomInv
<1>5. QED BY <1>2, <1>3, <1>4 DEF IInv, NeverMissized

LEMMA ReadQuartetKeeps ==
  ASSUME IInv, ReadQuartet
  PROVE  IInv'
<1> USE DEF ReadQuartet, client, ctx
<1>1. /\ in # << >> /\ SrcLen \in Nat \ {0}
      /\ read + 1 \in 0..Len(text)
      /\ Quartet \in Seq(Chars)
      /\ Len(pending) = Len(Quartet) - 1
      /\ Len(pending) \in 0..3
  BY QuartetFacts
<1>2. ChainInv' /\ SrcLen' = SrcLen - 1 BY ReadKeepsChain
<1>3. /\ DecodeQuartet(Quartet) \in Seq(Octets)
      /\ Len(DecodeQuartet(Quartet)) \in 1..3
  BY <1>1, DecodeYieldsOctets DEF Malformed
<1>4. written \in Seq(Octets) /\ Len(written) \in Nat /\ dst_cap \in Nat
  BY DEF IInv, TypeOK
<1>5. /\ written' \in Seq(Octets)
      /\ Len(written') = Len(written) + Len(DecodeQuartet(Quartet))
  BY <1>3, <1>4, ConcatFacts
<1>6. TypeOK'
  <2>1. finished' \in BOOLEAN BY DEF Padded
  <2>2. pending' \in Seq(Chars) OBVIOUS
  <2>3. QED BY <1>1, <1>5, <2>1, <2>2 DEF IInv, TypeOK
<1>7. RoomInv'
  <2>1. Len(pending') = 0 /\ Len(pending) = 3
    <3>1. Len(pending') = 0 OBVIOUS
    <3>2. Len(Quartet) = 4 OBVIOUS
    <3>3. QED BY <1>1, <3>1, <3>2 DEF ReadQuartet
  <2>2. /\ SrcLen + 2 <= dst_cap
        /\ 4 * Len(written) <= 3 * (dst_cap + 1 - SrcLen - Len(pending))
    BY DEF IInv, RoomInv, Decoding
  <2>3. SrcLen' + 2 <= dst_cap' BY <2>2, <1>1, <1>2, <1>4
  <2>4. Len(written') <= Len(written) + 3 /\ Len(written') \in Nat
    <3>1. PICK n \in 1..3 : n = Len(DecodeQuartet(Quartet)) BY <1>3
    <3>2. Len(written') = Len(written) + n BY <1>5, <3>1
    <3>3. QED BY <1>4, <3>1, <3>2
  <2>5. 4 * Len(written') <= 3 * (dst_cap' + 1 - SrcLen' - Len(pending'))
    BY <2>1, <2>2, <2>4, <1>1, <1>2, <1>4
  <2>6. QED BY <1>1, <2>1, <2>3, <2>5 DEF RoomInv
<1>8. QED BY <1>2, <1>6, <1>7 DEF IInv, NeverMissized

(* The room never runs out: src_len + 2 was enough. *)
LEMMA RoomSuffices ==
  ASSUME IInv, Decoding, Len(Quartet) = 4, QuartetOK(Quartet)
  PROVE  ~TooSmall
<1>1. /\ in # << >> /\ SrcLen \in Nat \ {0}
      /\ Quartet \in Seq(Chars)
      /\ Len(pending) = Len(Quartet) - 1
      /\ Len(pending) \in 0..3
  BY QuartetFacts
<1>2. Len(pending) = 3
  BY <1>1
<1>3. Len(DecodeQuartet(Quartet)) \in 1..3
  BY <1>1, DecodeYieldsOctets
<1>4. /\ SrcLen + 2 <= dst_cap
      /\ 4 * Len(written) <= 3 * (dst_cap + 1 - SrcLen - Len(pending))
  BY DEF IInv, RoomInv, Decoding
<1>5. Len(written) \in Nat /\ dst_cap \in Nat
  BY DEF IInv, TypeOK
<1>6. PICK w \in Nat, l \in Nat : w = Len(written) /\ l = SrcLen
  BY <1>1, <1>5
<1>7. 1 <= l /\ l + 2 <= dst_cap /\ 4 * w <= 3 * (dst_cap + 1 - l - 3)
  <2>1. l # 0 BY <1>1, <1>6
  <2>2. 1 <= l BY <2>1
  <2>3. QED BY <1>2, <1>4, <1>6, <2>2
<1>8. w + 3 <= dst_cap BY <1>5, <1>7
<1>9. PICK n \in 1..3 : n = Len(DecodeQuartet(Quartet)) BY <1>3
<1>10. n <= dst_cap - w BY <1>5, <1>8
<1>11. dst_cap - w \in Int /\ n \in Int BY <1>5
<1>12. ~(dst_cap - w < n) BY <1>10, <1>11
<1>13. QED BY <1>6, <1>9, <1>12 DEF TooSmall

LEMMA RefuseQuartetKeeps ==
  ASSUME IInv, RefuseQuartet
  PROVE  IInv'
<1>1. QuartetOK(Quartet) => ~TooSmall
  BY RoomSuffices DEF RefuseQuartet
<1>2. Refuse("malformed")
  BY <1>1 DEF RefuseQuartet
<1>3. QED BY <1>2, RefuseKeeps

-----------------------------------------------------------------------------

LEMMA PassOnKeeps ==
  ASSUME IInv, PassOn
  PROVE  IInv'
<1> USE DEF PassOn, EndsBody, Rest, client
<1>1. pc = "decode" /\ in # << >> BY DEF IInv, RoomInv, Decoded
<1>2. /\ Head(in).last_buf \in BOOLEAN
      /\ in \in Seq(Bufs)
  BY <1>1, HeadFacts DEF IInv, TypeOK
<1>3. /\ Tail(in) \in Seq(Bufs)
      /\ Len(Tail(in)) = Len(in) - 1
      /\ \A i \in 1..(Len(in) - 1) : Tail(in)[i] = in[i + 1]
      /\ Len(in) \in Nat
  BY <1>1, <1>2, TailFacts
<1>4. decoded_request_size' \in 0..MaxSize
  <2>1. decoded_request_size \in Nat /\ Len(written) \in Nat
    BY RequestAssumption DEF IInv, TypeOK
  <2>2. decoded_request_size + Len(written) <= max_body
    BY <2>1, LimitFacts DEF TooLarge
  <2>3. QED BY <2>1, <2>2, LimitFacts, RequestAssumption
<1>5. out' \in Seq(OutBufs)
  <2>1. out \in Seq(OutBufs) BY DEF IInv, TypeOK
  <2>2. [data |-> written, flush |-> no_buffering, last_buf |-> Head(in).last_buf]
          \in OutBufs
    BY <1>2 DEF IInv, TypeOK, OutBufs
  <2>3. QED BY <2>1, <2>2, AppendProperties
<1>6. TypeOK'
  <2>1. finished' \in BOOLEAN /\ request_finished' \in BOOLEAN
    BY <1>2 DEF IInv, TypeOK
  <2>2. content_length_n' \in Nat \cup {-1}
    BY <1>4, RequestAssumption DEF IInv, TypeOK
  <2>3. written' \in Seq(Octets) /\ dst_cap' \in Nat
    OBVIOUS
  <2>4. QED BY <1>3, <1>4, <1>5, <2>1, <2>2, <2>3 DEF IInv, TypeOK
<1>7. ChainInv'
  <2> SUFFICES ASSUME NEW i \in 1..Len(in')
               PROVE  /\ read' <= in'[i].end
                      /\ in'[i].end <= Len(text')
                      /\ \A j \in 1..(i - 1) : in'[j].end <= in'[i].end
    BY DEF ChainInv
  <2>1. i + 1 \in 1..Len(in) /\ in'[i] = in[i + 1]
    BY <1>3
  <2>2. read <= in[i + 1].end /\ in[i + 1].end <= Len(text)
    BY <2>1 DEF IInv, ChainInv
  <2>3. ASSUME NEW j \in 1..(i - 1) PROVE in'[j].end <= in'[i].end
    <3>1. j + 1 \in 1..(i + 1 - 1) /\ in'[j] = in[j + 1]
      BY <1>3
    <3>2. QED BY <2>1, <3>1 DEF IInv, ChainInv
  <2>4. QED BY <2>1, <2>2, <2>3
<1>8. RoomInv' BY DEF IInv, RoomInv
<1>9. QED BY <1>6, <1>7, <1>8 DEF IInv, NeverMissized

LEMMA EndOfChainKeeps ==
  ASSUME IInv, EndOfChain
  PROVE  IInv'
<1> USE DEF EndOfChain, client, decoder, ctx
<1>1. forwarded' \in Seq(OutBufs)
  BY ConcatFacts DEF IInv, TypeOK
<1>2. TypeOK' BY <1>1 DEF IInv, TypeOK
<1>3. ChainInv' BY DEF IInv, ChainInv
<1>4. RoomInv' BY DEF IInv, RoomInv
<1>5. QED BY <1>2, <1>3, <1>4 DEF IInv, NeverMissized

LEMMA StepKeeps == IInv /\ [Next]_vars => IInv'
<1> SUFFICES ASSUME IInv, [Next]_vars PROVE IInv'
  OBVIOUS
<1>1. ASSUME NEW c \in Chains, RequestBodyFilter(c) PROVE IInv'
  BY <1>1, BodyFilterKeeps
<1>2. CASE RefuseDuplicate BY <1>2, RefuseKeeps DEF RefuseDuplicate
<1>3. CASE TakeBuffer BY <1>3, TakeBufferKeeps
<1>4. CASE RefuseAfterPadding BY <1>4, RefuseKeeps DEF RefuseAfterPadding
<1>5. CASE ReadChar BY <1>5, ReadCharKeeps
<1>6. CASE ReadQuartet BY <1>6, ReadQuartetKeeps
<1>7. CASE RefuseQuartet BY <1>7, RefuseQuartetKeeps
<1>8. CASE RefusePartial BY <1>8, RefuseKeeps DEF RefusePartial
<1>9. CASE RefuseSize BY <1>9, RefuseKeeps DEF RefuseSize
<1>10. CASE PassOn BY <1>10, PassOnKeeps
<1>11. CASE AllocationFails BY <1>11, RefuseKeeps DEF AllocationFails
<1>12. CASE EndOfChain BY <1>12, EndOfChainKeeps
<1>13. CASE UNCHANGED vars
  <2> USE <1>13 DEF vars, client, decoder, ctx
  <2>1. TypeOK' BY DEF IInv, TypeOK
  <2>2. ChainInv' BY DEF IInv, ChainInv
  <2>3. RoomInv' BY DEF IInv, RoomInv, SrcLen
  <2>4. QED BY <2>1, <2>2, <2>3 DEF IInv, NeverMissized
<1>14. QED
  BY <1>1, <1>2, <1>3, <1>4, <1>5, <1>6, <1>7, <1>8, <1>9, <1>10, <1>11,
     <1>12, <1>13
  DEF Next, Filter, Over

-----------------------------------------------------------------------------

LEMMA Invariance == Spec => []IInv
<1>1. Init => IInv BY InitEstablishes
<1>2. IInv /\ [Next]_vars => IInv' BY StepKeeps
<1>3. QED BY <1>1, <1>2, PTL DEF Spec

(* Every variable of the request path has its type, for every body. *)
THEOREM RequestTypes == Spec => []TypeOK
<1>1. IInv => TypeOK BY DEF IInv
<1>2. QED BY <1>1, Invariance, PTL

(* The output buffer of src_len + 2 octets is enough for every update of the
   decoder, whatever was left over from the buffer before: a well-formed
   request is never ended with 500 for the decoder's output size. *)
THEOREM OutputAlwaysFits == Spec => []NeverMissized
<1>1. IInv => NeverMissized BY DEF IInv
<1>2. QED BY <1>1, Invariance, PTL

-----------------------------------------------------------------------------
(* What the upstream receives, and when a body is refused                  *)

(* The characters that have gone into octets, and the octets and the buffers
   that have come of them. *)
Done  == read - Len(pending)
Taken == SubSeq(text, 1, Done)
Parts(bufs) == [i \in 1..Len(bufs) |-> bufs[i].data]
Flat(bufs)  == FlattenSeq(Parts(bufs))
All == forwarded \o out

TakenInv ==
  /\ Done >= 0 /\ Done % 4 = 0
  /\ \A i \in 1..Len(pending) : pending[i] = text[Done + i]
  /\ Valid(Taken)
  /\ \A i \in 1..Done : text[i] = Pad => finished
  /\ finished /\ ~request_finished => pending = << >> /\ Done > 0 /\ text[Done] = Pad
  /\ pc = "decode" /\ SrcLen # 0 => ~finished

MeaningInv ==
  /\ Flat(forwarded) \o Flat(out) \o written = Meaning(Taken)
  /\ decoded_request_size = Len(Flat(forwarded) \o Flat(out))
  /\ pc = "next" => written = << >>
  /\ Returned => out = << >> /\ written = << >>

MarksInv ==
  /\ \A i \in 1..Len(in) : in[i].last_buf => i = Len(in) /\ in[i].end = Len(text)
  /\ pc = "decode" => ~request_finished /\ in # << >>
  /\ request_finished =>
       /\ read = Len(text) /\ pending = << >>
       /\ content_length_n = decoded_request_size
       /\ in # << >> => out = << >>
       /\ All # << >>
  /\ \A i \in 1..Len(All) : All[i].last_buf <=> i = Len(All) /\ request_finished

BodyInv == IInv /\ TakenInv /\ MeaningInv /\ MarksInv /\ RefusedFromText

LEMMA PartsTyped ==
  ASSUME NEW s \in Seq(OutBufs)
  PROVE  Parts(s) \in Seq(Seq(Octets)) /\ Len(Parts(s)) = Len(s)
<1>1. Len(s) \in Nat /\ \A i \in 1..Len(s) : s[i].data \in Seq(Octets)
  <2>1. Len(s) \in Nat /\ \A i \in 1..Len(s) : s[i] \in OutBufs
    OBVIOUS
  <2>2. QED
    BY <2>1 DEF OutBufs
<1> DEFINE S == Seq(Octets)
           n == Len(s)
<1>2. Parts(s) \in [1..n -> S]
  BY <1>1 DEF Parts
<1>3. n \in Nat
  BY <1>1
<1> HIDE DEF S, n
<1>4. Parts(s) \in Seq(S) /\ Len(Parts(s)) = n
  BY <1>2, <1>3
<1>5. QED
  BY <1>4 DEF S, n

LEMMA FlatTyped ==
  ASSUME NEW s \in Seq(OutBufs)
  PROVE  Flat(s) \in Seq(Octets)
  BY PartsTyped, FlattenIsSeq DEF Flat

LEMMA FlatEmpty == Flat(<< >>) = << >>
<1>1. Parts(<< >>) = << >>
  BY DEF Parts
<1>2. QED
  BY <1>1, FlattenEmpty DEF Flat

(* Buffers passed on bring their data along. *)
LEMMA FlatAppend ==
  ASSUME NEW s \in Seq(OutBufs), NEW b \in OutBufs
  PROVE  Flat(Append(s, b)) = Flat(s) \o b.data
<1> DEFINE t == Append(s, b)
           S == Seq(Octets)
           x == b.data
<1>1. /\ t \in Seq(OutBufs) /\ Len(t) = Len(s) + 1 /\ Len(s) \in Nat
      /\ t[Len(s) + 1] = b
      /\ \A i \in 1..Len(s) : t[i] = s[i]
  <2>1. s \in Seq(OutBufs) /\ b \in OutBufs
    OBVIOUS
  <2>2. QED
    BY <2>1, AppendProperties
<1>2. Parts(s) \in Seq(S) /\ Len(Parts(s)) = Len(s)
  BY PartsTyped
<1>3. Parts(t) \in Seq(S) /\ Len(Parts(t)) = Len(t)
  BY <1>1, PartsTyped
<1>4. x \in S
  BY DEF OutBufs
<1>5. /\ \A i \in 1..Len(s) : Parts(s)[i] = s[i].data
      /\ \A i \in 1..Len(t) : Parts(t)[i] = t[i].data
  BY DEF Parts
<1> HIDE DEF t, S, x
<1>6. /\ Append(Parts(s), x) \in Seq(S)
      /\ Len(Append(Parts(s), x)) = Len(Parts(s)) + 1
      /\ Append(Parts(s), x)[Len(Parts(s)) + 1] = x
      /\ \A i \in 1..Len(Parts(s)) : Append(Parts(s), x)[i] = Parts(s)[i]
  BY <1>2, <1>4, AppendProperties
<1>7. ASSUME NEW i \in 1..Len(t)
      PROVE  Append(Parts(s), x)[i] = Parts(t)[i]
  <2>1. CASE i \in 1..Len(s)
    BY <1>1, <1>2, <1>5, <1>6, <2>1
  <2>2. CASE i \notin 1..Len(s)
    <3>1. i = Len(s) + 1
      BY <1>1, <2>2
    <3>2. QED
      BY <1>1, <1>2, <1>5, <1>6, <3>1 DEF x
  <2>3. QED
    BY <2>1, <2>2
<1>8. Parts(t) = Append(Parts(s), x)
  BY <1>1, <1>2, <1>3, <1>6, <1>7, SeqEqual
<1>9. FlattenSeq(Append(Parts(s), x)) = FlattenSeq(Parts(s)) \o x
  BY <1>2, <1>4, FlattenAppend DEF S
<1>10. QED
  BY <1>8, <1>9 DEF Flat, t, x

LEMMA FlatConcat ==
  ASSUME NEW s \in Seq(OutBufs), NEW t \in Seq(OutBufs)
  PROVE  Flat(s \o t) = Flat(s) \o Flat(t)
<1> DEFINE u == s \o t
           S == Seq(Octets)
           v == Parts(s) \o Parts(t)
<1>1. s \in Seq(OutBufs) /\ t \in Seq(OutBufs)
  OBVIOUS
<1>2. u \in Seq(OutBufs) /\ Len(u) = Len(s) + Len(t) /\ Len(s) \in Nat /\ Len(t) \in Nat
  BY <1>1, ConcatFacts
<1>3. \A i \in 1..Len(s) : u[i] = s[i]
  BY <1>1, ConcatFacts
<1>4. \A i \in 1..Len(t) : u[Len(s) + i] = t[i]
  BY ONLY <1>1, ConcatFacts
<1>5. /\ Parts(s) \in Seq(S) /\ Len(Parts(s)) = Len(s)
      /\ Parts(t) \in Seq(S) /\ Len(Parts(t)) = Len(t)
      /\ Parts(u) \in Seq(S) /\ Len(Parts(u)) = Len(u)
  BY <1>2, PartsTyped
<1>6. /\ \A i \in 1..Len(s) : Parts(s)[i] = s[i].data
      /\ \A i \in 1..Len(t) : Parts(t)[i] = t[i].data
      /\ \A i \in 1..Len(u) : Parts(u)[i] = u[i].data
  BY DEF Parts
<1> DEFINE p == Parts(s)
           r == Parts(t)
<1> HIDE DEF u, S
<1>a. p \in Seq(S) /\ r \in Seq(S) /\ Len(p) = Len(s) /\ Len(r) = Len(t)
  BY <1>5
<1> HIDE DEF p, r
<1>7. p \o r \in Seq(S) /\ Len(p \o r) = Len(s) + Len(t)
  <2>1. p \o r \in Seq(S) /\ Len(p \o r) = Len(p) + Len(r)
    BY ONLY <1>a, ConcatFacts
  <2>2. QED
    BY <1>a, <2>1
<1>8. \A i \in 1..Len(s) : (p \o r)[i] = p[i]
  <2>1. \A i \in 1..Len(p) : (p \o r)[i] = p[i]
    BY ONLY <1>a, ConcatFacts
  <2>2. QED
    BY <1>a, <2>1
<1>9. \A i \in 1..Len(t) : (p \o r)[Len(s) + i] = r[i]
  <2>1. \A i \in 1..Len(r) : (p \o r)[Len(p) + i] = r[i]
    BY ONLY <1>a, ConcatFacts
  <2>2. QED
    BY <1>a, <2>1
<1>b. v = p \o r /\ p = Parts(s) /\ r = Parts(t)
  BY DEF p, r
<1> HIDE DEF v
<1>10. ASSUME NEW i \in 1..Len(u)
       PROVE  v[i] = Parts(u)[i]
  <2>1. CASE i \in 1..Len(s)
    BY <1>3, <1>6, <1>8, <1>b, <2>1
  <2>2. CASE i \notin 1..Len(s)
    <3>1. PICK j \in 1..Len(t) : i = Len(s) + j
      <4>1. i - Len(s) \in 1..Len(t) /\ i = Len(s) + (i - Len(s))
        BY <1>2, <2>2
      <4>2. QED
        BY <4>1
    <3>2. QED
      BY <1>4, <1>6, <1>9, <1>b, <3>1
  <2>3. QED
    BY <2>1, <2>2
<1>11. Parts(u) = v
  BY <1>2, <1>5, <1>7, <1>10, <1>b, SeqEqual
<1>12. FlattenSeq(Parts(s) \o Parts(t)) = FlattenSeq(Parts(s)) \o FlattenSeq(Parts(t))
  BY <1>5, FlattenConcat DEF S
<1>13. QED
  BY <1>11, <1>12 DEF Flat, u, v

-----------------------------------------------------------------------------

LEMMA PrefixFacts ==
  ASSUME NEW t \in Seq(Chars), NEW n \in 0..Len(t)
  PROVE  /\ SubSeq(t, 1, n) \in Seq(Chars) /\ Len(SubSeq(t, 1, n)) = n
         /\ \A i \in 1..n : SubSeq(t, 1, n)[i] = t[i]
  OBVIOUS

(* There is a longest valid prefix, if only the empty one. *)
LEMMA GoodPartFacts ==
  ASSUME TypeOK
  PROVE  /\ \E n \in 0..Len(text) : GoodPart = SubSeq(text, 1, n)
         /\ Valid(GoodPart)
         /\ \A n \in 0..Len(text) : Valid(SubSeq(text, 1, n)) => n <= Len(GoodPart)
<1> DEFINE prefixes == {SubSeq(text, 1, n) : n \in 0..Len(text)}
           Best(p) == Valid(p) /\ \A o \in prefixes : Valid(o) => Len(o) <= Len(p)
           C == {d \in 0..Len(text) : Valid(SubSeq(text, 1, Len(text) - d))}
<1>1. text \in Seq(Chars) /\ Len(text) \in Nat
  BY TextFacts
<1>2. C \in SUBSET Nat /\ C # {}
  <2>1. SubSeq(text, 1, 0) = << >> /\ Valid(<< >>)
    BY <1>1 DEF Valid
  <2>2. Len(text) \in 0..Len(text) /\ Len(text) - Len(text) = 0
    BY <1>1
  <2>3. Valid(SubSeq(text, 1, Len(text) - Len(text)))
    BY <2>1, <2>2
  <2>4. Len(text) \in C
    BY <2>2, <2>3
  <2>5. C \subseteq 0..Len(text) /\ 0..Len(text) \subseteq Nat
    OBVIOUS
  <2> HIDE DEF C
  <2>6. QED
    BY <2>4, <2>5
<1>3. PICK d \in C : \A e \in C : d <= e
  <2> HIDE DEF C
  <2>1. QED
    BY <1>2, LeastElement
<1> DEFINE m == Len(text) - d
<1>4. m \in 0..Len(text) /\ Valid(SubSeq(text, 1, m))
  BY <1>1, <1>3
<1>5. ASSUME NEW n \in 0..Len(text), Valid(SubSeq(text, 1, n))
      PROVE  n <= m
  <2>1. Len(text) - n \in 0..Len(text) /\ Len(text) - (Len(text) - n) = n
    BY <1>1
  <2>2. Len(text) - n \in C
    BY <1>5, <2>1
  <2>3. d <= Len(text) - n /\ d \in Nat
    <3> HIDE DEF C
    <3>1. QED
      BY <1>2, <1>3, <2>2
  <2>4. QED
    BY <1>1, <2>3
<1> HIDE DEF C, m
<1>6. \A n \in 0..Len(text) : Len(SubSeq(text, 1, n)) = n
  BY <1>1, PrefixFacts
<1>7. SubSeq(text, 1, m) \in prefixes /\ Best(SubSeq(text, 1, m))
  BY <1>4, <1>5, <1>6
<1>8. GoodPart = CHOOSE p \in prefixes : Best(p)
  BY DEF GoodPart
<1>9. GoodPart \in prefixes /\ Best(GoodPart)
  <2> HIDE DEF prefixes, Best
  <2>1. QED
    BY <1>7, <1>8
<1>10. \A n \in 0..Len(text) : SubSeq(text, 1, n) \in prefixes
  OBVIOUS
<1>11. QED
  BY <1>6, <1>9, <1>10

(* What has been taken is the beginning of the text. *)
LEMMA TakenFacts ==
  ASSUME IInv, Done >= 0
  PROVE  /\ text \in Seq(Chars) /\ Len(text) \in Nat
         /\ read \in Nat /\ Len(pending) \in Nat /\ read = Done + Len(pending)
         /\ Done \in 0..Len(text)
         /\ Taken \in Seq(Chars) /\ Len(Taken) = Done
         /\ \A i \in 1..Done : Taken[i] = text[i]
<1>1. /\ text \in Seq(Chars) /\ read \in Nat /\ read <= Len(text)
      /\ pending \in Seq(Chars) /\ Len(text) \in Nat /\ Len(pending) \in Nat
  BY TextFacts DEF IInv, TypeOK
<1>2. Done \in 0..Len(text) /\ read = Done + Len(pending)
  BY <1>1 DEF Done
<1>3. QED
  BY <1>1, <1>2, PrefixFacts DEF Taken

(* The octets passed on are the first of those that the good part means. *)
LEMMA TakenIsGood ==
  ASSUME IInv, Done >= 0, Valid(Taken)
  PROVE  /\ GoodPart \in Seq(Chars) /\ Valid(GoodPart)
         /\ Meaning(GoodPart) \in Seq(Octets) /\ Meaning(Taken) \in Seq(Octets)
         /\ Len(Meaning(Taken)) <= Len(Meaning(GoodPart))
         /\ Agree(Meaning(Taken), Meaning(GoodPart), Len(Meaning(Taken)))
<1>1. /\ text \in Seq(Chars) /\ Len(text) \in Nat /\ Done \in 0..Len(text)
      /\ Taken \in Seq(Chars) /\ Len(Taken) = Done
      /\ \A i \in 1..Done : Taken[i] = text[i]
  BY TakenFacts
<1>2. PICK n \in 0..Len(text) : GoodPart = SubSeq(text, 1, n)
  BY GoodPartFacts DEF IInv
<1>3. /\ GoodPart \in Seq(Chars) /\ Len(GoodPart) = n
      /\ \A i \in 1..n : GoodPart[i] = text[i]
  BY <1>1, <1>2, PrefixFacts
<1>4. Valid(GoodPart) /\ Done <= n
  BY <1>1, <1>3, GoodPartFacts DEF IInv, Taken
<1>5. Len(Taken) <= Len(GoodPart) /\ Agree(Taken, GoodPart, Len(Taken))
  BY <1>1, <1>3, <1>4 DEF Agree
<1>6. Meaning(GoodPart) \in Seq(Octets) /\ Meaning(Taken) \in Seq(Octets)
  BY <1>1, <1>3, <1>4, MeaningFacts
<1>7. /\ Len(Meaning(Taken)) <= Len(Meaning(GoodPart))
      /\ Agree(Meaning(Taken), Meaning(GoodPart), Len(Meaning(Taken)))
  BY <1>1, <1>3, <1>4, <1>5, MeaningGrows
<1>8. QED
  BY <1>3, <1>4, <1>6, <1>7

(* A text that goes on behind a padding, breaks a quartet or ends within one
   is not base64. *)
LEMMA PadEnds ==
  ASSUME NEW t \in Seq(Chars), NEW d \in Nat, d % 4 = 0, d > 0, d < Len(t),
         t[d] = Pad
  PROVE  ~Valid(t)
<1>1. Len(t) \in Nat /\ d \in 1..Len(t)
  OBVIOUS
<1>2. Len(t) % 4 = 0 => d <= Len(t) - 4
  BY <1>1
<1>3. QED
  BY <1>1, <1>2 DEF Valid

LEMMA BadQuartet ==
  ASSUME NEW t \in Seq(Chars), NEW d \in Nat, d % 4 = 0, d + 4 <= Len(t),
         NEW q \in Seq(Chars), Len(q) = 4, \A j \in 1..4 : q[j] = t[d + j],
         ~QuartetOK(q) \/ (Padded(q) /\ d + 4 # Len(t))
  PROVE  ~Valid(t)
<1> SUFFICES ASSUME Valid(t)
             PROVE  FALSE
  OBVIOUS
<1>1. Len(t) \in Nat /\ Len(t) % 4 = 0
  BY DEF Valid
<1>2. ASSUME NEW j \in 1..4
      PROVE  /\ q[j] # Junk
             /\ q[j] = Pad => d + j > Len(t) - 2 /\ t[Len(t)] = Pad
  <2>1. d + j \in 1..Len(t) /\ q[j] = t[d + j]
    <3>1. d + j \in 1..Len(t)
      BY <1>1
    <3>2. QED
      BY <3>1
  <2>2. QED
    BY <2>1 DEF Valid
<1>3. d + 4 # Len(t) => d + 8 <= Len(t)
  <2>1. PICK a \in Nat : d = 4 * a
    OBVIOUS
  <2>2. PICK m \in Nat : Len(t) = 4 * m
    BY <1>1
  <2>3. d + 4 <= Len(t)
    OBVIOUS
  <2>4. QED
    BY ONLY <2>1, <2>2, <2>3, d \in Nat, Len(t) \in Nat
<1>4. ASSUME NEW j \in 1..4
      PROVE  q[j] = Pad => d + 4 = Len(t) /\ j > 2 /\ q[4] = Pad
  <2>1. q[j] = Pad => d + j > Len(t) - 2
    BY <1>2
  <2>2. q[j] = Pad => d + 4 = Len(t) /\ j > 2
    BY <1>1, <1>3, <2>1
  <2>3. q[4] = t[d + 4]
    OBVIOUS
  <2>4. QED
    BY <1>2, <2>2, <2>3
<1>5. ASSUME NEW j \in 1..4
      PROVE  q[j] >= 0 \/ q[j] = Pad \/ q[j] = Junk
  <2>1. q[j] \in Chars
    <3>1. \A i \in 1..Len(q) : q[i] \in Chars
      OBVIOUS
    <3>2. QED
      BY <3>1
  <2>2. QED
    BY <2>1, QAssumption DEF Chars, Digits
<1>6. ~Padded(q) \/ d + 4 = Len(t)
  BY <1>4 DEF Padded
<1>7. QuartetOK(q)
  BY <1>2, <1>4, <1>5 DEF QuartetOK
<1>8. QED
  BY <1>6, <1>7

-----------------------------------------------------------------------------

LEMMA BodyInit == Init => BodyInv
<1> SUFFICES ASSUME Init PROVE BodyInv
  OBVIOUS
<1>1. IInv
  BY InitEstablishes
<1>2. text \in Seq(Chars) /\ Done = 0 /\ Taken = << >>
  <2>1. text \in Seq(Chars)
    BY RequestAssumption DEF Init
  <2>2. Done = 0
    <3>1. read = 0 /\ Len(pending) = 0
      BY DEF Init
    <3>2. QED
      BY <3>1 DEF Done
  <2>3. SubSeq(text, 1, 0) = << >>
    BY <2>1
  <2>4. QED
    BY <2>1, <2>2, <2>3 DEF Taken
<1>3. Valid(<< >>)
  BY DEF Valid
<1>4. Meaning(<< >>) = << >>
  <2>1. << >> \in Seq(Chars) /\ PadsOf(<< >>) = 0
    BY DEF PadsOf
  <2>2. Meaning(<< >>) \in Seq(Octets) /\ Len(Meaning(<< >>)) = 0
    <3>1. /\ Meaning(<< >>) \in Seq(Octets)
          /\ Len(Meaning(<< >>)) = 3 * (Len(<< >>) \div 4) - PadsOf(<< >>)
      BY <1>3, <2>1, MeaningFacts
    <3>2. Len(<< >>) \div 4 = 0
      OBVIOUS
    <3>3. QED
      BY <2>1, <3>1, <3>2
  <2>3. QED
    BY <2>2
<1>5. TakenInv
  <2>1. Len(pending) = 0
    BY DEF Init
  <2>2. QED
    BY <1>2, <1>3, <2>1 DEF TakenInv, Init
<1>6. MeaningInv
  <2>1. Flat(forwarded) = << >> /\ Flat(out) = << >> /\ written = << >> /\ out = << >>
    BY FlatEmpty DEF Init
  <2>2. << >> \o << >> = << >>
    OBVIOUS
  <2>3. decoded_request_size = 0 /\ pc = "idle"
    BY DEF Init
  <2>4. QED
    BY <1>2, <1>4, <2>1, <2>2, <2>3 DEF MeaningInv
<1>7. MarksInv
  <2>1. All = << >>
    BY DEF Init, All
  <2>2. QED
    BY <2>1 DEF MarksInv, Init
<1>8. RefusedFromText
  BY DEF RefusedFromText, Init
<1>9. QED
  BY <1>1, <1>5, <1>6, <1>7, <1>8 DEF BodyInv

LEMMA SameGoodPart ==
  ASSUME text' = text
  PROVE  GoodPart' = GoodPart
  BY DEF GoodPart

(* A step that leaves the text and the verdict alone. *)
LEMMA VerdictKept ==
  ASSUME RefusedFromText, UNCHANGED <<text, status>>
  PROVE  RefusedFromText'
  BY SameGoodPart DEF RefusedFromText

(* A refusal: nothing but the verdict is new. *)
LEMMA RefuseKeepsBody ==
  ASSUME BodyInv, NEW why, Refuse(why),
         why = "duplicate" => out = << >> /\ written = << >>,
         why \notin {"open"},
         why = "malformed" => ~Valid(text),
         why = "too_large" => \/ Len(Meaning(GoodPart)) > max_body
                              \/ Len(Meaning(GoodPart)) > MaxOffset
  PROVE  TakenInv' /\ MeaningInv' /\ MarksInv' /\ RefusedFromText'
<1> USE DEF Refuse, client, decoder, ctx
<1>1. Done' = Done /\ Taken' = Taken /\ All' = All /\ SrcLen' = SrcLen
  BY DEF Done, Taken, All, SrcLen
<1>2. TakenInv'
  BY <1>1 DEF BodyInv, TakenInv
<1>3. MeaningInv'
  BY <1>1 DEF BodyInv, MeaningInv, Returned
<1>4. MarksInv'
  BY <1>1 DEF BodyInv, MarksInv
<1>5. RefusedFromText'
  <2>1. GoodPart' = GoodPart
    BY SameGoodPart
  <2>2. QED
    BY <2>1 DEF RefusedFromText
<1>6. QED
  BY <1>2, <1>3, <1>4, <1>5

-----------------------------------------------------------------------------

LEMMA BodyFilterKeepsBody ==
  ASSUME BodyInv, NEW c \in Chains, RequestBodyFilter(c)
  PROVE  TakenInv' /\ MeaningInv' /\ MarksInv' /\ RefusedFromText'
<1> USE DEF RequestBodyFilter, client, decoder, ctx
<1>1. out = << >> /\ written = << >> /\ out' = out
  BY DEF BodyInv, MeaningInv, Returned
<1>2. Done' = Done /\ Taken' = Taken /\ All' = All
  BY <1>1 DEF Done, Taken, All
<1>3. TakenInv'
  BY <1>2 DEF BodyInv, TakenInv
<1>4. MeaningInv'
  BY <1>1, <1>2 DEF BodyInv, MeaningInv, Returned
<1>5. \A i \in 1..Len(c) : c[i].last_buf => i = Len(c) /\ c[i].end = Len(text)
  <2>1. CASE request_finished
    <3>1. PICK again \in BOOLEAN : c = <<[end |-> read, last_buf |-> again]>>
      BY <2>1 DEF Chains
    <3>2. read = Len(text)
      BY <2>1 DEF BodyInv, MarksInv
    <3>3. QED
      BY <3>1, <3>2
  <2>2. CASE ~request_finished
    <3>1. PICK m \in 1..MaxBufs :
            c \in [1..m -> [end : read..Len(text), last_buf : BOOLEAN]]
      BY <2>2 DEF Chains
    <3>2. m \in Nat /\ Len(c) = m
      BY <3>1, RequestAssumption
    <3>3. \A i \in 1..Len(c) :
            /\ \A j \in 1..(i - 1) : ~c[j].last_buf
            /\ c[i].last_buf => c[i].end = Len(text)
      BY <2>2 DEF Chains
    <3>4. ASSUME NEW i \in 1..Len(c), c[i].last_buf
          PROVE  i = Len(c)
      <4>1. i # m => i \in 1..(m - 1) /\ m \in 1..Len(c)
        BY <3>2
      <4>2. QED
        BY <3>2, <3>3, <3>4, <4>1
    <3>5. QED
      BY <3>3, <3>4
  <2>3. QED
    BY <2>1, <2>2
<1>6. MarksInv'
  BY <1>1, <1>2, <1>5 DEF BodyInv, MarksInv
<1>7. RefusedFromText'
  BY VerdictKept DEF BodyInv
<1>8. QED
  BY <1>3, <1>4, <1>6, <1>7

LEMMA TakeBufferKeepsBody ==
  ASSUME BodyInv, TakeBuffer
  PROVE  TakenInv' /\ MeaningInv' /\ MarksInv' /\ RefusedFromText'
<1> USE DEF TakeBuffer, client, decoder, ctx
<1>1. /\ Done' = Done /\ Taken' = Taken /\ All' = All /\ SrcLen' = SrcLen
      /\ written' = written
  BY DEF Done, Taken, All, SrcLen, BodyInv, MeaningInv
<1>2. TakenInv'
  BY <1>1 DEF BodyInv, TakenInv
<1>3. MeaningInv'
  BY <1>1 DEF BodyInv, MeaningInv, Returned
<1>4. MarksInv'
  BY <1>1 DEF BodyInv, MarksInv, Duplicate
<1>5. RefusedFromText'
  BY VerdictKept DEF BodyInv
<1>6. QED
  BY <1>2, <1>3, <1>4, <1>5

LEMMA ReadCharKeepsBody ==
  ASSUME BodyInv, ReadChar
  PROVE  TakenInv' /\ MeaningInv' /\ MarksInv' /\ RefusedFromText'
<1> USE DEF ReadChar, client, ctx
<1>1. /\ Len(pending) \in 0..3 /\ Quartet \in Seq(Chars)
      /\ Len(pending) = Len(Quartet) - 1
      /\ SrcLen' = SrcLen - 1 /\ SrcLen \in Nat \ {0}
  BY QuartetFacts, ReadKeepsChain DEF BodyInv
<1>2. /\ read \in Nat /\ Len(pending) \in Nat /\ read = Done + Len(pending)
      /\ Done \in Nat /\ pending \in Seq(Chars) /\ text \in Seq(Chars)
      /\ read + 1 \in 1..Len(text)
  <2>1. /\ read \in Nat /\ Len(pending) \in Nat /\ read = Done + Len(pending)
        /\ Done \in Nat /\ text \in Seq(Chars)
    BY TakenFacts DEF BodyInv, TakenInv
  <2>2. read + 1 \in 0..Len(text)
    BY QuartetFacts DEF BodyInv
  <2>3. QED
    BY <2>1, <2>2 DEF BodyInv, IInv, TypeOK
<1>3. Len(pending') = Len(pending) + 1 /\ Done' = Done
  BY <1>1, <1>2 DEF Done
<1>4. Taken' = Taken /\ All' = All
  BY <1>3 DEF Taken, All
<1>5. ASSUME NEW i \in 1..Len(pending')
      PROVE  pending'[i] = text'[Done' + i]
  <2>1. CASE i \in 1..Len(pending)
    <3>1. pending'[i] = pending[i]
      BY <1>2, <2>1 DEF Quartet
    <3>2. QED
      BY <1>3, <2>1, <3>1 DEF BodyInv, TakenInv
  <2>2. CASE i \notin 1..Len(pending)
    <3>1. i = Len(pending) + 1
      BY <1>2, <1>3, <2>2
    <3>2. pending'[i] = text[read + 1]
      BY <1>2, <3>1 DEF Quartet
    <3>3. QED
      BY <1>2, <1>3, <3>1, <3>2
  <2>3. QED
    BY <2>1, <2>2
<1>6. ~finished
  BY <1>1 DEF BodyInv, TakenInv, Decoding
<1>7. TakenInv'
  BY <1>3, <1>4, <1>5, <1>6 DEF BodyInv, TakenInv
<1>8. MeaningInv'
  BY <1>4 DEF BodyInv, MeaningInv, Returned, Decoding
<1>9. MarksInv'
  BY <1>4 DEF BodyInv, MarksInv, Decoding
<1>10. RefusedFromText'
  BY VerdictKept DEF BodyInv
<1>11. QED
  BY <1>7, <1>8, <1>9, <1>10

(* The quartet as a piece of the text. *)
LEMMA QuartetOfText ==
  ASSUME IInv, TakenInv, Decoding, Len(Quartet) = 4
  PROVE  /\ Len(pending) = 3 /\ read = Done + 3
         /\ Done \in Nat /\ Done % 4 = 0 /\ Done + 4 <= Len(text)
         /\ Quartet \in Seq(Chars) /\ text \in Seq(Chars)
         /\ \A j \in 1..4 : Quartet[j] = text[Done + j]
<1>1. /\ Len(pending) \in 0..3 /\ Quartet \in Seq(Chars)
      /\ Len(pending) = Len(Quartet) - 1 /\ read + 1 \in 0..Len(text)
  BY QuartetFacts
<1>2. Len(pending) = 3
  BY <1>1
<1>3. /\ read \in Nat /\ read = Done + Len(pending)
      /\ Done \in Nat /\ text \in Seq(Chars) /\ Len(text) \in Nat
  BY TakenFacts DEF TakenInv
<1>4. read = Done + 3 /\ Done + 4 <= Len(text) /\ Done % 4 = 0
  BY <1>1, <1>2, <1>3 DEF TakenInv
<1>5. pending \in Seq(Chars)
  BY DEF IInv, TypeOK
<1>6. ASSUME NEW j \in 1..4
      PROVE  Quartet[j] = text[Done + j]
  <2>1. CASE j \in 1..3
    <3>1. Quartet[j] = pending[j]
      BY <1>2, <1>5, <2>1 DEF Quartet
    <3>2. QED
      BY <1>2, <2>1, <3>1 DEF TakenInv
  <2>2. CASE j = 4
    <3>1. Quartet[4] = text[read + 1]
      BY <1>2, <1>5 DEF Quartet
    <3>2. read + 1 = Done + 4
      BY <1>3, <1>4
    <3>3. QED
      BY <2>2, <3>1, <3>2
  <2>3. QED
    BY <2>1, <2>2
<1>7. QED
  BY <1>1, <1>2, <1>3, <1>4, <1>6

LEMMA ReadQuartetKeepsBody ==
  ASSUME BodyInv, ReadQuartet
  PROVE  TakenInv' /\ MeaningInv' /\ MarksInv' /\ RefusedFromText'
<1> USE DEF ReadQuartet, client, ctx
<1>1. /\ Len(pending) = 3 /\ read = Done + 3
      /\ Done \in Nat /\ Done % 4 = 0 /\ Done + 4 <= Len(text)
      /\ Quartet \in Seq(Chars) /\ text \in Seq(Chars)
      /\ \A j \in 1..4 : Quartet[j] = text[Done + j]
  BY QuartetOfText DEF BodyInv
<1>2. SrcLen' = SrcLen - 1 /\ SrcLen \in Nat \ {0}
  BY QuartetFacts, ReadKeepsChain DEF BodyInv
<1>3. Done' = Done + 4
  <2>1. Len(pending') = 0
    OBVIOUS
  <2>2. read' = Done + 4
    BY <1>1
  <2>3. QED
    BY <1>1, <2>1, <2>2 DEF Done
<1>4. ~finished /\ \A i \in 1..Done : text[i] # Pad
  BY <1>2 DEF BodyInv, TakenInv, Decoding
<1>5. /\ Taken \in Seq(Chars) /\ Len(Taken) = Done /\ Valid(Taken)
      /\ \A i \in 1..Done : Taken[i] = text[i]
      /\ Len(text) \in Nat
  BY TakenFacts DEF BodyInv, TakenInv
<1>6. QuartetOK(Quartet) /\ Len(Quartet) = 4 /\ (Padded(Quartet) => SrcLen = 1)
  BY DEF Malformed
<1>7. \A i \in 1..Len(Taken) : Taken[i] # Pad
  BY <1>4, <1>5
<1>8. Taken' = Taken \o Quartet
  <2> DEFINE t == SubSeq(text, 1, Done + 4)
             c == Taken \o Quartet
  <2>1. Taken' = t
    BY <1>3 DEF Taken
  <2>2. /\ t \in Seq(Chars) /\ Len(t) = Done + 4
        /\ \A i \in 1..(Done + 4) : t[i] = text[i]
    <3>1. Done + 4 \in 0..Len(text)
      BY <1>1, <1>5
    <3>2. QED
      BY <1>1, <3>1, PrefixFacts
  <2> HIDE DEF t, c
  <2>3. /\ c \in Seq(Chars) /\ Len(c) = Done + 4
        /\ \A i \in 1..Done : c[i] = Taken[i]
        /\ \A j \in 1..4 : c[Done + j] = Quartet[j]
    <3> DEFINE a == Taken
               q == Quartet
    <3>1. /\ a \in Seq(Chars) /\ q \in Seq(Chars) /\ Valid(a) /\ Len(q) = 4
          /\ QuartetOK(q) /\ \A i \in 1..Len(a) : a[i] # Pad
      BY <1>1, <1>5, <1>6, <1>7
    <3> HIDE DEF a, q
    <3>2. /\ a \o q \in Seq(Chars) /\ Len(a \o q) = Len(a) + 4
          /\ Agree(a, a \o q, Len(a))
          /\ \A j \in 1..4 : (a \o q)[Len(a) + j] = q[j]
      BY <3>1, ValidAppends
    <3>3. QED
      BY <1>5, <3>2 DEF a, q, c, Agree
  <2>4. ASSUME NEW i \in 1..(Done + 4)
        PROVE  c[i] = t[i]
    <3>1. CASE i \in 1..Done
      BY <1>5, <2>2, <2>3, <3>1
    <3>2. CASE i \notin 1..Done
      <4>1. PICK j \in 1..4 : i = Done + j
        <5>1. i - Done \in 1..4 /\ i = Done + (i - Done)
          BY <1>1, <3>2
        <5>2. QED
          BY <5>1
      <4>2. QED
        BY <1>1, <2>2, <2>3, <4>1
    <3>3. QED
      BY <3>1, <3>2
  <2>5. t = c
    BY <2>2, <2>3, <2>4, SeqEqual
  <2>6. QED
    BY <2>1, <2>5 DEF c
<1>9. Valid(Taken')
  <2> DEFINE a == Taken
             q == Quartet
  <2>1. /\ a \in Seq(Chars) /\ q \in Seq(Chars) /\ Valid(a) /\ Len(q) = 4
        /\ QuartetOK(q) /\ \A i \in 1..Len(a) : a[i] # Pad
    BY <1>1, <1>5, <1>6, <1>7
  <2> HIDE DEF a, q
  <2>2. Valid(a \o q)
    BY <2>1, ValidAppends
  <2>3. QED
    BY <1>8, <2>2 DEF a, q
<1>10. Meaning(Taken') = Meaning(Taken) \o DecodeQuartet(Quartet)
  <2> DEFINE a == Taken
             q == Quartet
  <2>1. /\ a \in Seq(Chars) /\ q \in Seq(Chars) /\ Valid(a) /\ Len(q) = 4
        /\ QuartetOK(q) /\ \A i \in 1..Len(a) : a[i] # Pad
    BY <1>1, <1>5, <1>6, <1>7
  <2> HIDE DEF a, q
  <2>2. Meaning(a \o q) = Meaning(a) \o DecodeQuartet(q)
    BY <2>1, MeaningAppends
  <2>3. QED
    BY <1>8, <2>2 DEF a, q
<1>11. TakenInv'
  <2>1. Done' >= 0 /\ Done' % 4 = 0
    BY <1>1, <1>3
  <2>2. \A i \in 1..Len(pending') : pending'[i] = text'[Done' + i]
    OBVIOUS
  <2>3. ASSUME NEW i \in 1..Done', text'[i] = Pad
        PROVE  finished'
    <3>1. i \notin 1..Done
      BY <1>4, <2>3
    <3>2. PICK j \in 1..4 : i = Done + j
      <4>1. i - Done \in 1..4 /\ i = Done + (i - Done)
        BY <1>1, <1>3, <3>1
      <4>2. QED
        BY <4>1
    <3>3. Quartet[j] = Pad
      BY <1>1, <2>3, <3>2
    <3>4. Quartet[1] # Pad /\ Quartet[2] # Pad
      BY <1>6 DEF QuartetOK, Pad
    <3>5. j = 3 \/ j = 4
      BY <3>3, <3>4
    <3>6. QED
      BY <3>3, <3>5 DEF Padded
  <2>4. ASSUME finished'
        PROVE  pending' = << >> /\ Done' > 0 /\ text'[Done'] = Pad
    <3>1. Quartet[4] = Pad
      BY <1>6, <2>4 DEF Padded, QuartetOK
    <3>2. QED
      BY <1>1, <1>3, <3>1
  <2>5. SrcLen' # 0 => ~finished'
    BY <1>2, <1>6
  <2>6. QED
    BY <1>9, <2>1, <2>2, <2>3, <2>4, <2>5 DEF TakenInv
<1>12. MeaningInv'
  <2> DEFINE S == Octets
             f == Flat(forwarded) \o Flat(out)
             d == DecodeQuartet(Quartet)
  <2>1. f \in Seq(S) /\ written \in Seq(S) /\ d \in Seq(S)
    <3>1. Flat(forwarded) \in Seq(S) /\ Flat(out) \in Seq(S)
      BY FlatTyped DEF BodyInv, IInv, TypeOK
    <3>2. f \in Seq(S)
      BY <3>1, ConcatAssociative, ConcatEmptySeq, ConcatProperties
    <3>3. d \in Seq(S)
      BY <1>1, <1>6, DecodeYieldsOctets
    <3>4. QED
      BY <3>2, <3>3 DEF BodyInv, IInv, TypeOK
  <2>2. f \o written = Meaning(Taken)
    BY DEF BodyInv, MeaningInv
  <2> HIDE DEF S, f, d
  <2>3. (f \o written) \o d = f \o (written \o d)
    BY <2>1, ConcatAssociative, ConcatEmptySeq, ConcatProperties
  <2>4. f \o written' = Meaning(Taken')
    BY <1>10, <2>2, <2>3 DEF d
  <2>5. Flat(forwarded') = Flat(forwarded) /\ Flat(out') = Flat(out)
    OBVIOUS
  <2>6. QED
    BY <2>4, <2>5 DEF f, BodyInv, MeaningInv, Returned, Decoding
<1>13. MarksInv'
  <2>1. All' = All
    BY DEF All
  <2>2. QED
    BY <2>1 DEF BodyInv, MarksInv, Decoding
<1>14. RefusedFromText'
  BY VerdictKept DEF BodyInv
<1>15. QED
  BY <1>11, <1>12, <1>13, <1>14

(* Each refusal has its cause in the text. *)
LEMMA PaddingCause ==
  ASSUME BodyInv, RefuseAfterPadding
  PROVE  ~Valid(text)
<1>1. in # << >> /\ finished /\ SrcLen # 0 /\ ~request_finished
  BY DEF RefuseAfterPadding, Duplicate
<1>2. pending = << >> /\ Done > 0 /\ text[Done] = Pad /\ Done % 4 = 0
  BY <1>1 DEF BodyInv, TakenInv
<1>3. SrcLen \in Nat /\ read + SrcLen <= Len(text)
  BY <1>1, HeadFacts DEF BodyInv
<1>4. /\ text \in Seq(Chars) /\ Len(text) \in Nat /\ read \in Nat
      /\ Done \in Nat /\ read = Done + Len(pending)
  BY TakenFacts DEF BodyInv, TakenInv
<1>5. Len(pending) = 0
  BY <1>2
<1>6. Done < Len(text)
  BY <1>1, <1>3, <1>4, <1>5
<1>7. QED
  BY <1>2, <1>4, <1>6, PadEnds

LEMMA QuartetCause ==
  ASSUME BodyInv, RefuseQuartet
  PROVE  Refuse("malformed") /\ ~Valid(text)
<1>1. Decoding /\ Len(Quartet) = 4
  BY DEF RefuseQuartet
<1>2. QuartetOK(Quartet) => ~TooSmall
  BY <1>1, RoomSuffices DEF BodyInv
<1>3. Refuse("malformed") /\ (Malformed \/ TooSmall)
  BY <1>2 DEF RefuseQuartet
<1>4. ~QuartetOK(Quartet) \/ (Padded(Quartet) /\ SrcLen # 1)
  BY <1>2, <1>3 DEF Malformed
<1>5. /\ read = Done + 3 /\ Done \in Nat /\ Done % 4 = 0 /\ Done + 4 <= Len(text)
      /\ Quartet \in Seq(Chars) /\ text \in Seq(Chars)
      /\ \A j \in 1..4 : Quartet[j] = text[Done + j]
  BY <1>1, QuartetOfText DEF BodyInv
<1>6. SrcLen # 1 => Done + 4 # Len(text)
  <2>1. in # << >> /\ SrcLen \in Nat \ {0}
    BY <1>1, QuartetFacts DEF BodyInv
  <2>2. read + SrcLen <= Len(text)
    BY <2>1, HeadFacts DEF BodyInv
  <2>3. QED
    BY <1>5, <2>1, <2>2
<1>7. ~Valid(text)
  <2> DEFINE q == Quartet
  <2>1. /\ text \in Seq(Chars) /\ Done \in Nat /\ Done % 4 = 0 /\ Done + 4 <= Len(text)
        /\ q \in Seq(Chars) /\ Len(q) = 4 /\ \A j \in 1..4 : q[j] = text[Done + j]
        /\ (~QuartetOK(q) \/ (Padded(q) /\ Done + 4 # Len(text)))
    BY <1>1, <1>4, <1>5, <1>6
  <2> HIDE DEF q
  <2>2. QED
    BY <2>1, BadQuartet
<1>8. QED
  BY <1>3, <1>7

LEMMA PartialCause ==
  ASSUME BodyInv, RefusePartial
  PROVE  ~Valid(text)
<1>1. in # << >> /\ Head(in).last_buf /\ SrcLen = 0 /\ pending # << >>
  BY DEF RefusePartial, Decoded, BodyInv, IInv, RoomInv
<1>2. Head(in).end = Len(text)
  <2>1. Head(in) = in[1] /\ 1 \in 1..Len(in)
    BY <1>1, TailFacts DEF BodyInv, IInv, TypeOK
  <2>2. QED
    BY <1>1, <2>1 DEF BodyInv, MarksInv
<1>3. /\ Len(text) \in Nat /\ read \in Nat /\ Done \in Nat /\ Done % 4 = 0
      /\ read = Done + Len(pending)
  BY TakenFacts DEF BodyInv, TakenInv
<1>4. read = Len(text)
  BY <1>1, <1>2, <1>3 DEF SrcLen
<1>5. Len(pending) \in 1..3
  <2>1. pending \in Seq(Chars) /\ Len(pending) <= 3
    BY DEF BodyInv, IInv, TypeOK, RoomInv
  <2>2. Len(pending) \in Nat /\ Len(pending) # 0
    BY <1>1, <2>1
  <2>3. PICK n \in Nat : n = Len(pending)
    BY <2>2
  <2>4. n <= 3 /\ n # 0
    BY <2>1, <2>2, <2>3
  <2>5. n \in 1..3
    BY <2>4
  <2>6. QED
    BY <2>3, <2>5
<1>6. Len(text) % 4 # 0
  <2>1. PICK n \in 1..3 : n = Len(pending)
    BY <1>5
  <2>2. (Done + n) % 4 # 0
    BY <1>3
  <2>3. QED
    BY <1>3, <1>4, <2>1, <2>2
<1>7. QED
  BY <1>6 DEF Valid

LEMMA SizeCause ==
  ASSUME BodyInv, RefuseSize
  PROVE  \/ Len(Meaning(GoodPart)) > max_body
         \/ Len(Meaning(GoodPart)) > MaxOffset
<1>1. \/ decoded_request_size + Len(written) > max_body
      \/ decoded_request_size + Len(written) > MaxOffset
  BY DEF RefuseSize, TooLarge
<1>2. decoded_request_size + Len(written) = Len(Meaning(Taken))
  <2> DEFINE f == Flat(forwarded) \o Flat(out)
  <2>1. f \in Seq(Octets) /\ written \in Seq(Octets)
    <3>1. Flat(forwarded) \in Seq(Octets) /\ Flat(out) \in Seq(Octets)
      BY FlatTyped DEF BodyInv, IInv, TypeOK
    <3>2. QED
      BY <3>1, ConcatAssociative, ConcatEmptySeq, ConcatProperties DEF BodyInv, IInv, TypeOK
  <2>2. f \o written = Meaning(Taken) /\ decoded_request_size = Len(f)
    BY DEF BodyInv, MeaningInv
  <2> HIDE DEF f
  <2>3. Len(f \o written) = Len(f) + Len(written)
    BY <2>1, ConcatFacts
  <2>4. QED
    BY <2>2, <2>3
<1>3. /\ Meaning(GoodPart) \in Seq(Octets) /\ Meaning(Taken) \in Seq(Octets)
      /\ Len(Meaning(Taken)) <= Len(Meaning(GoodPart))
  BY TakenIsGood DEF BodyInv, TakenInv
<1>4. max_body \in Nat /\ MaxOffset \in Nat
  BY LimitFacts, RequestAssumption
<1>5. Len(Meaning(GoodPart)) \in Nat /\ Len(Meaning(Taken)) \in Nat
  BY <1>3
<1>6. QED
  BY <1>1, <1>2, <1>3, <1>4, <1>5

(* The buffer's end: data and marks go to the output chain. *)
LEMMA PassOnKeepsBody ==
  ASSUME BodyInv, PassOn
  PROVE  TakenInv' /\ MeaningInv' /\ MarksInv' /\ RefusedFromText'
<1> USE DEF PassOn, EndsBody, Rest, client
<1> DEFINE last == Head(in).last_buf
           b == [data |-> written, flush |-> no_buffering, last_buf |-> last]
           sent == written # << >> \/ last \/ no_buffering
<1>1. pc = "decode" /\ in # << >> /\ SrcLen = 0 /\ ~request_finished
  BY DEF BodyInv, MarksInv, Decoded
<1>2. /\ last \in BOOLEAN /\ Head(in) = in[1] /\ Len(in) >= 1 /\ Len(in) \in Nat
      /\ Len(Tail(in)) = Len(in) - 1
      /\ \A i \in 1..(Len(in) - 1) : Tail(in)[i] = in[i + 1]
  <2>1. in \in Seq(Bufs)
    BY DEF BodyInv, IInv, TypeOK
  <2>2. last \in BOOLEAN
    BY <1>1, HeadFacts DEF BodyInv
  <2>3. QED
    BY <1>1, <2>1, <2>2, TailFacts
<1>3. last => Len(in) = 1 /\ Head(in).end = Len(text) /\ pending = << >>
  <2>1. 1 \in 1..Len(in)
    BY <1>2
  <2>2. QED
    BY <1>2, <2>1 DEF BodyInv, MarksInv
<1>4. last => read = Len(text)
  <2>1. read \in Nat /\ Head(in).end \in Nat
    BY <1>1, HeadFacts DEF BodyInv, IInv, TypeOK
  <2>2. QED
    BY <1>1, <1>3, <2>1 DEF SrcLen
<1>5. Done' = Done /\ Taken' = Taken
  BY DEF Done, Taken
<1>6. TakenInv'
  BY <1>5, <1>1 DEF BodyInv, TakenInv
<1>7. /\ forwarded \in Seq(OutBufs) /\ out \in Seq(OutBufs) /\ b \in OutBufs
      /\ written \in Seq(Octets) /\ b.data = written /\ b.last_buf = last
  <2>1. b \in OutBufs
    BY <1>2 DEF BodyInv, IInv, TypeOK, OutBufs
  <2>2. QED
    BY <2>1 DEF BodyInv, IInv, TypeOK
<1>8. /\ out' = IF sent THEN Append(out, b) ELSE out
      /\ request_finished' = last
      /\ in' = Tail(in) /\ pc' = "next" /\ written' = << >>
      /\ decoded_request_size' = decoded_request_size + Len(written)
      /\ content_length_n' = IF last THEN decoded_request_size' ELSE content_length_n
      /\ read' = read /\ pending' = pending /\ forwarded' = forwarded /\ text' = text
  BY <1>1, <1>2
<1> HIDE DEF PassOn, EndsBody, Rest, client, last, b
<1>9. MeaningInv'
  <2> DEFINE f == Flat(forwarded)
             o == Flat(out)
  <2>1. f \in Seq(Octets) /\ o \in Seq(Octets)
    BY <1>7, FlatTyped
  <2>2. Flat(forwarded') = f
    BY <1>8
  <2>3. Flat(out') = o \o written
    <3>1. CASE sent
      BY <1>7, <1>8, <3>1, FlatAppend
    <3>2. CASE ~sent
      BY <1>8, <2>1, <3>2, ConcatAssociative, ConcatEmptySeq, ConcatProperties
    <3>3. QED
      BY <3>1, <3>2
  <2>4. (f \o o) \o written = Meaning(Taken) /\ decoded_request_size = Len(f \o o)
    BY DEF BodyInv, MeaningInv
  <2> HIDE DEF f, o
  <2>5. /\ (f \o o) \o written = f \o (o \o written)
        /\ f \o o \in Seq(Octets) /\ o \o written \in Seq(Octets)
    BY <1>7, <2>1, ConcatAssociative, ConcatEmptySeq, ConcatProperties
  <2>6. Len((f \o o) \o written) = Len(f \o o) + Len(written)
    BY <1>7, <2>5, ConcatFacts
  <2>7. (f \o (o \o written)) \o << >> = f \o (o \o written)
    <3>1. f \o (o \o written) \in Seq(Octets)
      BY <2>1, <2>5, ConcatAssociative, ConcatEmptySeq, ConcatProperties
    <3>2. QED
      BY <3>1, ConcatAssociative, ConcatEmptySeq, ConcatProperties
  <2>8. /\ (Flat(forwarded') \o Flat(out')) \o written' = Meaning(Taken')
        /\ decoded_request_size' = Len(Flat(forwarded') \o Flat(out'))
    BY <1>5, <1>8, <2>2, <2>3, <2>4, <2>5, <2>6, <2>7
  <2>9. QED
    BY <1>8, <2>8 DEF MeaningInv, Returned
<1>10. MarksInv'
  <2>1. ASSUME NEW i \in 1..Len(in'), in'[i].last_buf
        PROVE  i = Len(in') /\ in'[i].end = Len(text')
    <3>1. i + 1 \in 1..Len(in) /\ in'[i] = in[i + 1] /\ Len(in') = Len(in) - 1
      BY <1>2, <1>8
    <3>2. i + 1 = Len(in) /\ in[i + 1].end = Len(text)
      BY <2>1, <3>1 DEF BodyInv, MarksInv
    <3>3. QED
      BY <1>2, <1>8, <3>1, <3>2
  <2>2. last => in' = << >>
    <3>1. in \in Seq(Bufs)
      BY DEF BodyInv, IInv, TypeOK
    <3>2. Tail(in) \in Seq(Bufs) /\ (last => Len(Tail(in)) = 0)
      BY <1>1, <1>2, <1>3, <3>1, TailFacts
    <3>3. QED
      BY <1>8, <3>2
  <2>3. All \in Seq(OutBufs) /\ All' = IF sent THEN Append(All, b) ELSE All
    <3>1. All \in Seq(OutBufs)
      BY <1>7, ConcatFacts DEF All
    <3>2. forwarded \o Append(out, b) = Append(forwarded \o out, b)
      BY <1>7, ConcatAppend
    <3>3. QED
      BY <1>8, <3>1, <3>2 DEF All
  <2>4. \A i \in 1..Len(All) : ~All[i].last_buf
    BY <1>1 DEF BodyInv, MarksInv
  <2>5. ASSUME NEW i \in 1..Len(All')
        PROVE  All'[i].last_buf <=> i = Len(All') /\ last
    <3>1. CASE sent
      <4>1. /\ Len(All') = Len(All) + 1 /\ All'[Len(All) + 1] = b
            /\ \A j \in 1..Len(All) : All'[j] = All[j]
            /\ Len(All) \in Nat
        BY <1>7, <2>3, <3>1, AppendProperties
      <4>2. CASE i \in 1..Len(All)
        BY <2>4, <4>1, <4>2
      <4>3. CASE i \notin 1..Len(All)
        <5>1. i = Len(All) + 1
          BY <4>1, <4>3
        <5>2. QED
          BY <1>7, <4>1, <5>1
      <4>4. QED
        BY <4>2, <4>3
    <3>2. CASE ~sent
      BY <2>3, <2>4, <3>2
    <3>3. QED
      BY <3>1, <3>2
  <2>6. last => All' # << >>
    <3>1. last => All' = Append(All, b)
      BY <2>3
    <3>2. Len(Append(All, b)) = Len(All) + 1 /\ Len(All) \in Nat
      BY <1>7, <2>3, AppendProperties
    <3>3. QED
      BY <3>1, <3>2
  <2>7. request_finished' =>
          /\ read' = Len(text') /\ pending' = << >>
          /\ content_length_n' = decoded_request_size'
          /\ in' # << >> => out' = << >>
          /\ All' # << >>
    BY <1>3, <1>4, <1>8, <2>2, <2>6
  <2>8. QED
    BY <1>8, <2>1, <2>5, <2>7 DEF MarksInv
<1>11. RefusedFromText'
  BY <1>8, VerdictKept DEF BodyInv, PassOn
<1>12. QED
  BY <1>6, <1>9, <1>10, <1>11

LEMMA EndOfChainKeepsBody ==
  ASSUME BodyInv, EndOfChain
  PROVE  TakenInv' /\ MeaningInv' /\ MarksInv' /\ RefusedFromText'
<1> USE DEF EndOfChain, client, decoder, ctx
<1>1. Done' = Done /\ Taken' = Taken
  BY DEF Done, Taken
<1>2. TakenInv'
  BY <1>1 DEF BodyInv, TakenInv
<1>3. forwarded \in Seq(OutBufs) /\ out \in Seq(OutBufs)
  BY DEF BodyInv, IInv, TypeOK
<1>4. MeaningInv'
  <2>1. /\ Flat(forwarded') = Flat(forwarded) \o Flat(out)
        /\ Flat(out') = << >>
    BY <1>3, FlatConcat, FlatEmpty
  <2>2. Flat(forwarded') \in Seq(Octets)
    <3>1. Flat(forwarded) \in Seq(Octets) /\ Flat(out) \in Seq(Octets)
      BY <1>3, FlatTyped
    <3>2. QED
      BY <2>1, <3>1, ConcatAssociative, ConcatEmptySeq, ConcatProperties
  <2>3. Flat(forwarded') \o Flat(out') = Flat(forwarded')
    BY <2>1, <2>2, ConcatAssociative, ConcatEmptySeq, ConcatProperties
  <2>4. written = << >> /\ written' = << >>
    BY DEF BodyInv, MeaningInv
  <2>5. (Flat(forwarded) \o Flat(out)) \o written = Meaning(Taken)
    BY DEF BodyInv, MeaningInv
  <2>6. Flat(forwarded') \o written = Meaning(Taken)
    BY <2>1, <2>5
  <2>7. QED
    BY <1>1, <2>1, <2>3, <2>4, <2>6 DEF BodyInv, MeaningInv
<1>5. MarksInv'
  <2>1. All' = All
    <3>1. All \in Seq(OutBufs)
      BY <1>3, ConcatFacts DEF All
    <3>2. All \o << >> = All
      BY <3>1, ConcatAssociative, ConcatEmptySeq, ConcatProperties
    <3>3. All' = All \o << >>
      BY DEF All
    <3>4. QED
      BY <3>2, <3>3
  <2>2. QED
    BY <2>1 DEF BodyInv, MarksInv
<1>6. RefusedFromText'
  BY VerdictKept DEF BodyInv
<1>7. QED
  BY <1>2, <1>4, <1>5, <1>6

LEMMA BodyStep == BodyInv /\ [Next]_vars => BodyInv'
<1> SUFFICES ASSUME BodyInv, [Next]_vars
             PROVE  BodyInv'
  OBVIOUS
<1>1. IInv'
  BY StepKeeps DEF BodyInv
<1>2. TakenInv' /\ MeaningInv' /\ MarksInv' /\ RefusedFromText'
  <2>1. ASSUME NEW c \in Chains, RequestBodyFilter(c)
        PROVE  TakenInv' /\ MeaningInv' /\ MarksInv' /\ RefusedFromText'
    BY <2>1, BodyFilterKeepsBody
  <2>2. CASE RefuseDuplicate
    <3>1. out = << >> /\ written = << >>
      BY <2>2 DEF RefuseDuplicate, Duplicate, BodyInv, MeaningInv, MarksInv
    <3>2. QED
      BY <2>2, <3>1, RefuseKeepsBody DEF RefuseDuplicate
  <2>3. CASE TakeBuffer
    BY <2>3, TakeBufferKeepsBody
  <2>4. CASE RefuseAfterPadding
    BY <2>4, PaddingCause, RefuseKeepsBody DEF RefuseAfterPadding
  <2>5. CASE ReadChar
    BY <2>5, ReadCharKeepsBody
  <2>6. CASE ReadQuartet
    BY <2>6, ReadQuartetKeepsBody
  <2>7. CASE RefuseQuartet
    BY <2>7, QuartetCause, RefuseKeepsBody
  <2>8. CASE RefusePartial
    BY <2>8, PartialCause, RefuseKeepsBody DEF RefusePartial
  <2>9. CASE RefuseSize
    BY <2>9, SizeCause, RefuseKeepsBody DEF RefuseSize
  <2>10. CASE PassOn
    BY <2>10, PassOnKeepsBody
  <2>11. CASE AllocationFails
    BY <2>11, RefuseKeepsBody DEF AllocationFails
  <2>12. CASE EndOfChain
    BY <2>12, EndOfChainKeepsBody
  <2>13. CASE UNCHANGED vars
    <3> USE <2>13 DEF vars, client, decoder, ctx
    <3>1. /\ Done' = Done /\ Taken' = Taken /\ All' = All /\ SrcLen' = SrcLen
      BY DEF Done, Taken, All, SrcLen
    <3>2. TakenInv'
      BY <3>1 DEF BodyInv, TakenInv
    <3>3. MeaningInv'
      BY <3>1 DEF BodyInv, MeaningInv, Returned
    <3>4. MarksInv'
      BY <3>1 DEF BodyInv, MarksInv
    <3>5. RefusedFromText'
      BY VerdictKept DEF BodyInv
    <3>6. QED
      BY <3>2, <3>3, <3>4, <3>5
  <2>14. QED
    BY <2>1, <2>2, <2>3, <2>4, <2>5, <2>6, <2>7, <2>8, <2>9, <2>10, <2>11,
       <2>12, <2>13
    DEF Next, Filter, Over
<1>3. QED
  BY <1>1, <1>2 DEF BodyInv

LEMMA BodyInvariance == Spec => []BodyInv
<1>1. QED
  BY BodyInit, BodyStep, PTL DEF Spec

-----------------------------------------------------------------------------

(* What the next filter has is the beginning of what the good part means. *)
LEMMA ForwardedIsPrefix ==
  ASSUME BodyInv
  PROVE  IsPrefix(Forwarded, Meaning(GoodPart))
<1> DEFINE f == Flat(forwarded)
           o == Flat(out) \o written
           m == Meaning(Taken)
           g == Meaning(GoodPart)
<1>1. f \in Seq(Octets) /\ Flat(out) \in Seq(Octets) /\ written \in Seq(Octets)
  BY FlatTyped DEF BodyInv, IInv, TypeOK
<1>2. o \in Seq(Octets) /\ m = f \o o
  <2> DEFINE x == Flat(out)
             w == written
  <2>1. x \in Seq(Octets) /\ f \in Seq(Octets) /\ w \in Seq(Octets)
    BY <1>1
  <2>2. (f \o x) \o w = m
    BY DEF BodyInv, MeaningInv
  <2> HIDE DEF f, x, w, m
  <2>3. x \o w \in Seq(Octets) /\ (f \o x) \o w = f \o (x \o w)
    BY <2>1, ConcatAssociative, ConcatEmptySeq, ConcatProperties
  <2>4. QED
    BY <2>2, <2>3 DEF x, w
<1>3. /\ g \in Seq(Octets) /\ m \in Seq(Octets) /\ Len(m) <= Len(g)
      /\ Agree(m, g, Len(m))
  BY TakenIsGood DEF BodyInv, TakenInv
<1>4. Forwarded = f
  BY DEF Forwarded, Flat, Parts
<1> HIDE DEF f, o, m, g
<1>5. Len(m) = Len(f) + Len(o) /\ \A i \in 1..Len(f) : m[i] = f[i]
  BY <1>1, <1>2, ConcatFacts
<1>6. Len(f) \in Nat /\ Len(o) \in Nat /\ Len(g) \in Nat /\ Len(f) <= Len(g)
  BY <1>1, <1>2, <1>3, <1>5
<1>7. \A i \in 1..Len(f) : f[i] = g[i]
  BY <1>3, <1>5, <1>6 DEF Agree
<1>8. SubSeq(f, 1, Len(f)) = SubSeq(g, 1, Len(f))
  <2>1. SubSeq(f, 1, Len(f)) = f
    BY <1>1
  <2>2. /\ SubSeq(g, 1, Len(f)) \in Seq(Octets) /\ Len(SubSeq(g, 1, Len(f))) = Len(f)
        /\ \A i \in 1..Len(f) : SubSeq(g, 1, Len(f))[i] = g[i]
    BY <1>3, <1>6
  <2>3. SubSeq(g, 1, Len(f)) = f
    BY <1>1, <1>7, <2>2, SeqEqual
  <2>4. QED
    BY <2>1, <2>3
<1>9. IsPrefix(f, g)
  BY <1>6, <1>8 DEF IsPrefix
<1>10. QED
  BY <1>4, <1>9 DEF g

(* Nothing is held back once the body has been accepted. *)
LEMMA AcceptedIsWhole ==
  ASSUME BodyInv, Returned, request_finished
  PROVE  /\ Valid(text) /\ Forwarded = Meaning(text)
         /\ content_length_n = Len(Forwarded) /\ All = forwarded /\ All # << >>
<1>1. out = << >> /\ written = << >>
  BY DEF BodyInv, MeaningInv
<1>2. read = Len(text) /\ pending = << >> /\ All # << >>
      /\ content_length_n = decoded_request_size
  BY DEF BodyInv, MarksInv
<1>3. /\ text \in Seq(Chars) /\ Done = Len(text)
  <2>1. text \in Seq(Chars) /\ read \in Nat /\ Len(pending) = 0
    BY <1>2, TextFacts DEF BodyInv, IInv, TypeOK
  <2>2. QED
    BY <1>2, <2>1 DEF Done
<1>4. Taken = text
  BY <1>3 DEF Taken
<1>5. Flat(forwarded) \in Seq(Octets) /\ forwarded \in Seq(OutBufs)
  BY FlatTyped DEF BodyInv, IInv, TypeOK
<1>6. Flat(forwarded) \o << >> = Flat(forwarded) /\ Flat(out) = << >>
  BY <1>1, <1>5, ConcatAssociative, ConcatEmptySeq, ConcatProperties, FlatEmpty
<1>7. /\ (Flat(forwarded) \o Flat(out)) \o written = Meaning(Taken)
      /\ decoded_request_size = Len(Flat(forwarded) \o Flat(out))
  BY DEF BodyInv, MeaningInv
<1>8. Flat(forwarded) = Meaning(text) /\ decoded_request_size = Len(Flat(forwarded))
  BY <1>1, <1>4, <1>6, <1>7
<1>9. All = forwarded
  BY <1>1, <1>5, ConcatAssociative, ConcatEmptySeq, ConcatProperties DEF All
<1>10. Forwarded = Flat(forwarded)
  BY DEF Forwarded, Flat, Parts
<1>11. Valid(text)
  BY <1>4 DEF BodyInv, TakenInv
<1>12. QED
  BY <1>2, <1>8, <1>9, <1>10, <1>11

(* The upstream receives the octets that the base64 text means, in order and
   without a gap, wherever NGINX has cut the body, and whatever the text has
   of mistakes further on; an accepted body was base64, and then it receives
   all of them. *)
THEOREM UpstreamGetsTheMeaning == Spec => []ForwardsMeaning
<1>1. BodyInv => ForwardsMeaning
  BY ForwardedIsPrefix, AcceptedIsWhole DEF ForwardsMeaning
<1>2. QED
  BY <1>1, BodyInvariance, PTL

SizeInv == decoded_request_size <= max_body

LEMMA SizeInit ==
  ASSUME Init
  PROVE  SizeInv
BY LimitFacts DEF Init, SizeInv

(* Only PassOn counts, and looks at the limit first. *)
LEMMA SizeStep ==
  ASSUME IInv, SizeInv, [Next]_vars
  PROVE  SizeInv'
<1>1. CASE PassOn
  BY <1>1, LimitFacts DEF PassOn, TooLarge, SizeInv, max_body
<1>2. CASE ~PassOn
  <2>1. decoded_request_size' = decoded_request_size
    BY <1>2 DEF Next, Filter, Over, vars, ctx, RequestBodyFilter, RefuseDuplicate, TakeBuffer,
       RefuseAfterPadding, ReadChar, ReadQuartet, RefuseQuartet, RefusePartial, RefuseSize,
       AllocationFails, EndOfChain, Refuse
  <2>. QED BY <2>1 DEF SizeInv, max_body
<1>. QED BY <1>1, <1>2

(* The limit counts what has been passed on and what this call has decoded. *)
LEMMA ForwardedWithin ==
  ASSUME BodyInv, SizeInv
  PROVE  Len(Forwarded) <= max_body
<1>1. Flat(forwarded) \in Seq(Octets) /\ Flat(out) \in Seq(Octets)
  BY FlatTyped DEF BodyInv, IInv, TypeOK
<1>2. Len(Flat(forwarded) \o Flat(out)) = Len(Flat(forwarded)) + Len(Flat(out))
  BY <1>1, ConcatProperties
<1>3. decoded_request_size = Len(Flat(forwarded) \o Flat(out))
  BY DEF BodyInv, MeaningInv
<1>4. Len(Flat(forwarded)) \in Nat /\ Len(Flat(out)) \in Nat
  BY <1>1
<1>5. Forwarded = Flat(forwarded)
  BY DEF Forwarded, Flat, Parts
<1>. QED BY <1>2, <1>3, <1>4, <1>5, LimitFacts DEF SizeInv

(* A body is refused as malformed only if its text is no base64, and as too
   large only if what the text means is over a limit: never for the place
   where a buffer ended.  And never does more than the limit go upstream,
   however many buffers and calls it comes in. *)
THEOREM VerdictIsTheTexts == Spec => []VerdictFromText
<1>1. BodyInv /\ SizeInv => VerdictFromText
  BY ForwardedWithin DEF BodyInv, VerdictFromText
<1>2. BodyInv => IInv
  BY DEF BodyInv
<1>3. QED
  BY <1>1, <1>2, BodyInvariance, SizeInit, SizeStep, PTL DEF Spec

(* The end of the body is passed on once, on the last buffer, and the length
   told to the upstream module is that of what was passed on. *)
THEOREM OneEndOfBody == Spec => []BodyEndsOnce
<1>1. BodyInv => BodyEndsOnce
  <2> SUFFICES ASSUME BodyInv
               PROVE  BodyEndsOnce
    OBVIOUS
  <2>1. /\ forwarded \in Seq(OutBufs) /\ out \in Seq(OutBufs)
        /\ Len(forwarded) \in Nat /\ Len(out) \in Nat
    BY DEF BodyInv, IInv, TypeOK
  <2>2. \A i \in 1..Len(All) : All[i].last_buf <=> i = Len(All) /\ request_finished
    BY DEF BodyInv, MarksInv
  <2>3. Len(All) = Len(forwarded) + Len(out) /\ \A i \in 1..Len(forwarded) : All[i] = forwarded[i]
    BY <2>1, ConcatFacts DEF All
  <2>4. ASSUME NEW i \in 1..Len(forwarded), forwarded[i].last_buf
        PROVE  i = Len(forwarded) /\ request_finished
    <3>1. i \in 1..Len(All) /\ All[i].last_buf
      BY <2>1, <2>3, <2>4
    <3>2. i = Len(All) /\ request_finished
      BY <2>2, <3>1
    <3>3. QED
      BY <2>1, <2>3, <3>2
  <2>5. ASSUME Returned, request_finished
        PROVE  /\ forwarded # << >> /\ Last(forwarded).last_buf
               /\ content_length_n = Len(Forwarded)
    <3>1. content_length_n = Len(Forwarded) /\ All = forwarded /\ All # << >>
      BY <2>5, AcceptedIsWhole
    <3>2. Len(All) \in 1..Len(All)
      BY <2>1, <3>1
    <3>3. All[Len(All)].last_buf
      BY <2>2, <2>5, <3>2
    <3>4. QED
      BY <3>1, <3>3 DEF Last
  <2>6. QED
    BY <2>4, <2>5 DEF BodyEndsOnce
<1>2. QED
  BY <1>1, BodyInvariance, PTL

-----------------------------------------------------------------------------
(* Every call brings the request nearer to its verdict                     *)

(* Every buffer that is still to be decoded brings characters, or is the
   last one. *)
BringsInv ==
  /\ status # "open" => pc = "idle"
  /\ pc = "next" /\ ~request_finished =>
       \A i \in 1..Len(in) :
         in[i].last_buf \/ (IF i = 1 THEN read ELSE in[i - 1].end) < in[i].end
  /\ pc = "decode" =>
       /\ ~request_finished
       /\ \A i \in 2..Len(in) : in[i].last_buf \/ in[i - 1].end < in[i].end

(* A character pays for its own turn, for those around its buffer and for
   those around its call; so does the end of the body. *)
TurnsLeft ==
  CASE pc = "idle"   -> 3
    [] pc = "next"   -> (IF in = << >> THEN 4 ELSE 2)
    [] pc = "decode" -> (IF SrcLen # 0 \/ Head(in).last_buf THEN 1 ELSE 5)

Unread == Len(text) - read

Rank ==
  IF status # "open" THEN 0
  ELSE 5 * Unread + (IF request_finished THEN 0 ELSE 5) + TurnsLeft

LEMMA RankParts ==
  ASSUME IInv
  PROVE  Unread \in Nat /\ TurnsLeft \in 1..5 /\ Rank \in Nat
<1>1. read \in 0..Len(text) /\ Len(text) \in Nat /\ read \in Nat
  BY TextFacts DEF IInv, TypeOK
<1>2. Unread \in Nat
  BY <1>1 DEF Unread
<1>3. TurnsLeft \in 1..5
  <2>1. pc \in {"idle", "next", "decode"}
    BY DEF IInv, TypeOK
  <2>2. QED
    BY <2>1 DEF TurnsLeft
<1>4. Rank \in Nat
  <2> HIDE DEF Unread, TurnsLeft
  <2>1. QED
    BY <1>2, <1>3 DEF Rank
<1>5. QED
  BY <1>2, <1>3, <1>4

(* A request that is still open is that far from its verdict. *)
LEMMA OpenRank ==
  ASSUME IInv, status = "open"
  PROVE  Rank = 5 * Unread + (IF request_finished THEN 0 ELSE 5) + TurnsLeft
         /\ Rank > 0
<1>1. Rank = 5 * Unread + (IF request_finished THEN 0 ELSE 5) + TurnsLeft
  BY DEF Rank
<1>2. Unread \in Nat /\ TurnsLeft \in 1..5
  BY RankParts
<1> HIDE DEF Unread, TurnsLeft
<1>3. QED
  BY <1>1, <1>2

LEMMA RefuseNearer ==
  ASSUME IInv, status = "open", NEW why, why # "open", Refuse(why)
  PROVE  BringsInv' /\ Rank' < Rank
<1>1. BringsInv'
  BY DEF Refuse, BringsInv
<1>2. Rank' = 0
  BY DEF Refuse, Rank
<1>3. Rank \in Nat /\ Rank > 0
  BY RankParts, OpenRank
<1>4. QED
  BY <1>1, <1>2, <1>3

LEMMA BodyFilterNearer ==
  ASSUME IInv, BringsInv, NEW c \in Chains, RequestBodyFilter(c)
  PROVE  BringsInv' /\ Rank' < Rank
<1>1. /\ pc = "idle" /\ pc' = "next" /\ in' = c
      /\ status = "open" /\ status' = status
      /\ request_finished' = request_finished /\ read' = read /\ text' = text
  BY DEF RequestBodyFilter, client, ctx
<1>2. c # << >>
  <2>1. CASE request_finished
    BY <2>1 DEF Chains
  <2>2. CASE ~request_finished
    <3>1. PICK m \in 1..MaxBufs :
            c \in [1..m -> [end : read..Len(text), last_buf : BOOLEAN]]
      BY <2>2 DEF Chains
    <3>2. m \in Nat /\ m >= 1
      BY RequestAssumption
    <3>3. DOMAIN c = 1..m /\ 1 \in 1..m
      BY <3>1, <3>2
    <3>4. QED
      BY <3>3
  <2>3. QED
    BY <2>1, <2>2
<1>3. ~request_finished =>
        \A i \in 1..Len(c) :
          c[i].last_buf \/ (IF i = 1 THEN read ELSE c[i - 1].end) < c[i].end
  <2>1. SUFFICES ASSUME ~request_finished, NEW i \in 1..Len(c)
                 PROVE  c[i].last_buf \/ (IF i = 1 THEN read ELSE c[i - 1].end) < c[i].end
    OBVIOUS
  <2>2. c[i].last_buf \/ c[i].end > (IF i = 1 THEN read ELSE c[i - 1].end)
    BY <2>1, Zenon DEF Chains
  <2>3. \A a, b : a > b => b < a
    OBVIOUS
  <2>4. QED
    BY <2>2, <2>3, Zenon
<1>4. BringsInv'
  BY <1>1, <1>3 DEF BringsInv
<1>5. TurnsLeft = 3 /\ TurnsLeft' = 2
  BY <1>1, <1>2 DEF TurnsLeft
<1>6. Unread' = Unread /\ Unread \in Nat
  BY <1>1, RankParts DEF Unread
<1>7. /\ Rank = 5 * Unread + (IF request_finished THEN 0 ELSE 5) + 3
      /\ Rank' = 5 * Unread + (IF request_finished THEN 0 ELSE 5) + 2
  BY <1>1, <1>5, <1>6 DEF Rank
<1>8. QED
  BY <1>4, <1>6, <1>7

LEMMA TakeBufferNearer ==
  ASSUME IInv, BringsInv, TakeBuffer
  PROVE  BringsInv' /\ Rank' < Rank
<1>1. /\ pc = "next" /\ pc' = "decode" /\ in # << >> /\ in' = in
      /\ ~request_finished /\ request_finished' = request_finished
      /\ status' = status /\ read' = read /\ text' = text
  BY DEF TakeBuffer, Duplicate, client, ctx
<1>2. status = "open"
  BY <1>1 DEF BringsInv
<1>3. \A i \in 1..Len(in) :
        in[i].last_buf \/ (IF i = 1 THEN read ELSE in[i - 1].end) < in[i].end
  BY <1>1 DEF BringsInv
<1>4. \A i \in 2..Len(in) : in[i].last_buf \/ in[i - 1].end < in[i].end
  <2>1. ASSUME NEW i \in 2..Len(in)
        PROVE  i \in 1..Len(in) /\ i # 1
    BY <2>1
  <2>2. QED
    BY <1>3, <2>1
<1>5. BringsInv'
  BY <1>1, <1>2, <1>4 DEF BringsInv
<1>6. SrcLen # 0 \/ Head(in).last_buf
  <2>1. in \in Seq(Bufs) /\ 1 \in 1..Len(in) /\ Head(in) = in[1]
    BY <1>1, TailFacts DEF IInv, TypeOK
  <2>2. in[1].last_buf \/ read < in[1].end
    BY <1>3, <2>1
  <2>3. read \in Nat /\ Head(in).end \in Nat
    BY <1>1, HeadFacts, TextFacts DEF IInv, TypeOK
  <2>4. QED
    BY <2>1, <2>2, <2>3 DEF SrcLen
<1>7. TurnsLeft = 2 /\ TurnsLeft' = 1
  <2>1. SrcLen' = SrcLen
    BY <1>1 DEF SrcLen
  <2>2. QED
    BY <1>1, <1>6, <2>1 DEF TurnsLeft
<1>8. Unread' = Unread /\ Unread \in Nat
  BY <1>1, RankParts DEF Unread
<1>9. Rank = 5 * Unread + 5 + 2 /\ Rank' = 5 * Unread + 5 + 1
  BY <1>1, <1>2, <1>7, <1>8 DEF Rank
<1>10. QED
  BY <1>5, <1>8, <1>9

(* A turn that takes one character. *)
LEMMA CharNearer ==
  ASSUME IInv, BringsInv, Decoding, read' = read + 1,
         UNCHANGED <<text, in, pc, status, request_finished>>
  PROVE  BringsInv' /\ Rank' < Rank
<1>1. pc = "decode" /\ SrcLen # 0
  BY DEF Decoding
<1>2. status = "open" /\ ~request_finished
  BY <1>1 DEF BringsInv
<1>3. BringsInv'
  BY <1>1, <1>2 DEF BringsInv
<1>4. TurnsLeft = 1 /\ TurnsLeft' \in {1, 5}
  BY <1>1 DEF TurnsLeft
<1>5. read \in Nat /\ read + 1 \in 0..Len(text) /\ Len(text) \in Nat
  BY QuartetFacts, TextFacts DEF IInv, TypeOK
<1>6. Unread' = Unread - 1 /\ Unread \in Nat
  BY <1>5 DEF Unread
<1>7. Rank = 5 * Unread + 5 + 1 /\ Rank' = 5 * Unread' + 5 + TurnsLeft'
  BY <1>2, <1>4 DEF Rank
<1>8. TurnsLeft' \in Nat /\ TurnsLeft' <= 5
  BY <1>4
<1>9. ASSUME NEW u \in Nat, NEW t \in Nat, t <= 5
      PROVE  5 * (u - 1) + 5 + t < 5 * u + 5 + 1
  BY ONLY <1>9
<1>10. 5 * (Unread - 1) + 5 + TurnsLeft' < 5 * Unread + 5 + 1
  BY ONLY <1>6, <1>8, <1>9, Zenon
<1>11. Rank' < Rank
  BY ONLY <1>6, <1>7, <1>10, Zenon
<1>12. QED
  BY <1>3, <1>11

LEMMA PassOnNearer ==
  ASSUME IInv, BringsInv, PassOn
  PROVE  BringsInv' /\ Rank' < Rank
<1>1. /\ pc = "decode" /\ pc' = "next" /\ SrcLen = 0
      /\ in' = Tail(in) /\ read' = read /\ text' = text /\ status' = status
      /\ request_finished' = (request_finished \/ Head(in).last_buf)
  BY DEF PassOn, Decoded, Rest, EndsBody, client
<1>2. /\ status = "open" /\ ~request_finished
      /\ \A i \in 2..Len(in) : in[i].last_buf \/ in[i - 1].end < in[i].end
  BY <1>1 DEF BringsInv
<1>3. in # << >> /\ in \in Seq(Bufs)
  BY <1>1 DEF IInv, RoomInv, TypeOK
<1>4. /\ Len(Tail(in)) = Len(in) - 1 /\ Len(in) \in Nat
      /\ \A i \in 1..(Len(in) - 1) : Tail(in)[i] = in[i + 1]
      /\ Head(in) = in[1]
  BY <1>3, TailFacts
<1>5. Head(in).end = read /\ Head(in).last_buf \in BOOLEAN
  <2>1. Head(in).end \in Nat /\ read \in Nat /\ Head(in).last_buf \in BOOLEAN
    BY <1>3, HeadFacts, TextFacts DEF IInv, TypeOK
  <2>2. QED
    BY <1>1, <2>1 DEF SrcLen
<1>6. ASSUME NEW i \in 1..Len(Tail(in))
      PROVE  Tail(in)[i].last_buf
             \/ (IF i = 1 THEN read ELSE Tail(in)[i - 1].end) < Tail(in)[i].end
  <2>1. /\ i + 1 \in 2..Len(in) /\ Tail(in)[i] = in[i + 1]
        /\ (i + 1) - 1 = i
    BY <1>4
  <2>2. in[i + 1].last_buf \/ in[i].end < in[i + 1].end
    BY <1>2, <2>1
  <2>3. CASE i = 1
    BY <1>4, <1>5, <2>1, <2>2, <2>3
  <2>4. CASE i # 1
    <3>1. Tail(in)[i - 1] = in[i]
      BY <1>4, <2>4
    <3>2. QED
      BY <2>1, <2>2, <2>4, <3>1
  <2>5. QED
    BY <2>3, <2>4
<1>7. BringsInv'
  BY <1>1, <1>2, <1>6 DEF BringsInv
<1>8. Unread' = Unread /\ Unread \in Nat
  BY <1>1, RankParts DEF Unread
<1>9. TurnsLeft' \in Nat /\ TurnsLeft' <= 4
  BY <1>1 DEF TurnsLeft
<1>10. CASE Head(in).last_buf
  <2>1. TurnsLeft = 1
    BY <1>1, <1>10 DEF TurnsLeft
  <2>2. Rank = 5 * Unread + 5 + 1 /\ Rank' = 5 * Unread + 0 + TurnsLeft'
    BY <1>1, <1>2, <1>8, <1>10, <2>1 DEF Rank
  <2>3. ASSUME NEW u \in Nat, NEW t \in Nat, t <= 4
        PROVE  5 * u + 0 + t < 5 * u + 5 + 1
    BY ONLY <2>3
  <2>4. 5 * Unread + 0 + TurnsLeft' < 5 * Unread + 5 + 1
    BY ONLY <1>8, <1>9, <2>3, Zenon
  <2>5. Rank' < Rank
    BY ONLY <2>2, <2>4, Zenon
  <2>6. QED
    BY <1>7, <2>5
<1>11. CASE ~Head(in).last_buf
  <2>1. TurnsLeft = 5
    BY <1>1, <1>11 DEF TurnsLeft
  <2>2. Rank = 5 * Unread + 5 + 5 /\ Rank' = 5 * Unread + 5 + TurnsLeft'
    BY <1>1, <1>2, <1>8, <1>11, <2>1 DEF Rank
  <2>3. ASSUME NEW u \in Nat, NEW t \in Nat, t <= 4
        PROVE  5 * u + 5 + t < 5 * u + 5 + 5
    BY ONLY <2>3
  <2>4. 5 * Unread + 5 + TurnsLeft' < 5 * Unread + 5 + 5
    BY ONLY <1>8, <1>9, <2>3, Zenon
  <2>5. Rank' < Rank
    BY ONLY <2>2, <2>4, Zenon
  <2>6. QED
    BY <1>7, <2>5
<1>12. QED
  BY <1>5, <1>10, <1>11

LEMMA EndOfChainNearer ==
  ASSUME IInv, BringsInv, EndOfChain
  PROVE  BringsInv' /\ Rank' < Rank
<1>1. /\ pc = "next" /\ pc' = "idle" /\ in = << >>
      /\ UNCHANGED <<read, text, status, request_finished>>
  BY DEF EndOfChain, client, ctx
<1>2. status = "open" /\ BringsInv'
  BY <1>1 DEF BringsInv
<1>3. TurnsLeft = 4 /\ TurnsLeft' = 3
  BY <1>1 DEF TurnsLeft
<1>4. Unread' = Unread /\ Unread \in Nat
  BY <1>1, RankParts DEF Unread
<1>5. /\ Rank = 5 * Unread + (IF request_finished THEN 0 ELSE 5) + 4
      /\ Rank' = 5 * Unread + (IF request_finished THEN 0 ELSE 5) + 3
  BY <1>1, <1>2, <1>3, <1>4 DEF Rank
<1>6. QED
  BY <1>2, <1>4, <1>5

LEMMA NextNearer ==
  ASSUME IInv, BringsInv, Next
  PROVE  BringsInv' /\ (Rank' < Rank \/ UNCHANGED vars)
<1>1. ASSUME NEW c \in Chains, RequestBodyFilter(c)
      PROVE  BringsInv' /\ Rank' < Rank
  BY <1>1, BodyFilterNearer
<1>2. CASE Over
  BY <1>2 DEF Over, vars, client, decoder, ctx, BringsInv
<1>3. CASE Filter
  <2>1. pc # "idle" /\ status = "open"
    <3>1. pc # "idle"
      BY <1>3 DEF Filter, RefuseDuplicate, TakeBuffer, RefuseAfterPadding, ReadChar,
         ReadQuartet, RefuseQuartet, RefusePartial, RefuseSize, PassOn, AllocationFails,
         EndOfChain, Decoding, Decoded
    <3>2. QED
      BY <3>1 DEF BringsInv
  <2>2. CASE RefuseDuplicate \/ RefuseAfterPadding \/ RefusePartial \/ RefuseSize
             \/ AllocationFails
    BY <2>1, <2>2, RefuseNearer
    DEF RefuseDuplicate, RefuseAfterPadding, RefusePartial, RefuseSize, AllocationFails
  <2>3. CASE RefuseQuartet
    <3>1. PICK why \in {"sizing", "malformed"} : Refuse(why)
      BY <2>3 DEF RefuseQuartet
    <3>2. QED
      BY <2>1, <3>1, RefuseNearer
  <2>4. CASE TakeBuffer
    BY <2>4, TakeBufferNearer
  <2>5. CASE ReadChar
    BY <2>5, CharNearer DEF ReadChar, client, ctx
  <2>6. CASE ReadQuartet
    BY <2>6, CharNearer DEF ReadQuartet, client, ctx
  <2>7. CASE PassOn
    BY <2>7, PassOnNearer
  <2>8. CASE EndOfChain
    BY <2>8, EndOfChainNearer
  <2>9. QED
    BY <1>3, <2>2, <2>3, <2>4, <2>5, <2>6, <2>7, <2>8 DEF Filter
<1>4. QED
  BY <1>1, <1>2, <1>3 DEF Next

RankInv == Rank \in Nat
Nearer  == RankInv /\ RankInv' /\ Rank' < Rank

(* The safety half of Settles: a request is accepted or refused within
   5 * Len(text) + 8 turns, the calls of the filter included, however NGINX
   cuts its body (source lines 423-591 and grpc_web_base64.c, 70-110): every
   turn of the two loops and every call takes a character, a buffer or the
   end of the body.  That NGINX goes on calling is left to TLC. *)
THEOREM EveryTurnDecodes == Spec => [][Nearer]_vars
<1>1. Init => BringsInv
  BY DEF Init, BringsInv
<1>2. IInv /\ BringsInv /\ [Next]_vars => BringsInv'
  <2>1. UNCHANGED vars /\ BringsInv => BringsInv'
    BY DEF vars, client, decoder, ctx, BringsInv
  <2>2. QED
    BY <2>1, NextNearer
<1>3. IInv => RankInv
  BY RankParts DEF RankInv
<1>4. IInv /\ BringsInv /\ RankInv /\ RankInv' /\ [Next]_vars => [Nearer]_vars
  BY NextNearer DEF Nearer
<1>5. QED
  BY <1>1, <1>2, <1>3, <1>4, Invariance, PTL DEF Spec

=============================================================================
