------------------------- MODULE TextResponseProofs -------------------------
(***************************************************************************)
(* The safety of the grpc-web-text response path, for every upstream       *)
(* response, every frame size limit, every way of cutting the stream into  *)
(* buffers and every first capacity.                                       *)
(*                                                                         *)
(* The inductive invariant numbers the blocks.  "Made" counts those that   *)
(* exist so far: on the wire, in r->out, or encoded by the running call.   *)
(* It says where the parser stands in the native stream (inside block      *)
(* Made + 1), and that the block numbered i is the i-th frame, wherever    *)
(* its buffer is.  What ties the two together is that no buffer is on two  *)
(* chains, so that encoding one block cannot touch another.                *)
(***************************************************************************)
EXTENDS TextResponse, SequenceTheorems, WellFoundedInduction, TLAPS

(* Every non-empty set of natural numbers has a least element. *)
LEMMA LeastElement ==
  ASSUME NEW C \in SUBSET Nat, C # {}
  PROVE  \E c \in C : \A d \in C : c <= d
<1> DEFINE R == {ss \in Nat \X Nat : ss[1] < ss[2]}
<1>1. IsWellFoundedOn(R, Nat)
  BY NatLessThanWellFounded DEF OpToRel
<1>2. \A c, d \in Nat : d < c => <<d, c>> \in R
  OBVIOUS
<1> HIDE DEF R
<1>3. PICK c \in C : \A d \in C : ~ (<<d, c>> \in R)
  BY <1>1, WFMin
<1>4. ASSUME NEW d \in C
      PROVE  c <= d
  <2>1. c \in Nat /\ d \in Nat
    OBVIOUS
  <2>2. ~ (<<d, c>> \in R)
    BY <1>3
  <2>3. ~ (d < c)
    BY <2>1, <2>2, <1>2
  <2>4. QED
    BY <2>1, <2>3
<1>5. QED
  BY <1>4

(* Removing the head keeps the remaining elements, shifted by one. *)
LEMMA TailFacts ==
  ASSUME NEW S, NEW s \in Seq(S), s # << >>
  PROVE  /\ Len(s) >= 1
         /\ Head(s) = s[1]
         /\ Head(s) \in S
         /\ Tail(s) \in Seq(S)
         /\ Len(Tail(s)) = Len(s) - 1
         /\ \A i \in 1..(Len(s) - 1) : Tail(s)[i] = s[i + 1]
  OBVIOUS

LEMMA ConcatFacts ==
  ASSUME NEW S, NEW s \in Seq(S), NEW t \in Seq(S)
  PROVE  /\ s \o t \in Seq(S)
         /\ Len(s \o t) = Len(s) + Len(t)
         /\ \A i \in 1..Len(s) : (s \o t)[i] = s[i]
         /\ \A i \in 1..Len(t) : (s \o t)[Len(s) + i] = t[i]
  OBVIOUS

LEMMA ConsFacts ==
  ASSUME NEW S, NEW s \in Seq(S), NEW x \in S
  PROVE  /\ <<x>> \o s \in Seq(S)
         /\ Len(<<x>> \o s) = Len(s) + 1
         /\ (<<x>> \o s)[1] = x
         /\ \A i \in 1..Len(s) : (<<x>> \o s)[i + 1] = s[i]
  OBVIOUS

(* Sequences without repetition, and sequences with no element in common. *)
Injective(s)   == \A i, j \in 1..Len(s) : s[i] = s[j] => i = j
Disjoint(s, t) == \A i \in 1..Len(s), j \in 1..Len(t) : s[i] # t[j]
Holds(s, x)    == \E i \in 1..Len(s) : s[i] = x

(* A sequence holds members of its set only. *)
LEMMA HoldsMembers ==
  ASSUME NEW S, NEW s \in Seq(S), NEW x, x \notin S
  PROVE  ~Holds(s, x)
  BY DEF Holds

(* Injectivity and disjointness along the operations on chains. *)
LEMMA InjectiveTail ==
  ASSUME NEW S, NEW s \in Seq(S), s # << >>, Injective(s)
  PROVE  Injective(Tail(s)) /\ ~Holds(Tail(s), Head(s))
  BY TailFacts DEF Injective, Holds

LEMMA InjectiveAppend ==
  ASSUME NEW S, NEW s \in Seq(S), NEW x \in S, Injective(s), ~Holds(s, x)
  PROVE  Injective(Append(s, x))
  BY AppendProperties DEF Injective, Holds

LEMMA InjectiveCons ==
  ASSUME NEW S, NEW s \in Seq(S), NEW x \in S, Injective(s), ~Holds(s, x)
  PROVE  Injective(<<x>> \o s)
<1> DEFINE t == <<x>> \o s
<1>1. /\ Len(t) = Len(s) + 1
      /\ t[1] = x
      /\ \A i \in 2..Len(t) : i - 1 \in 1..Len(s) /\ t[i] = s[i - 1]
  OBVIOUS
<1> HIDE DEF t
<1>2. ASSUME NEW i \in 1..Len(t), NEW j \in 1..Len(t), t[i] = t[j]
      PROVE  i = j
  <2>1. CASE i = 1 /\ j = 1
    BY <2>1
  <2>2. CASE i = 1 /\ j # 1
    BY <2>2, <1>1, <1>2 DEF Holds
  <2>3. CASE i # 1 /\ j = 1
    BY <2>3, <1>1, <1>2 DEF Holds
  <2>4. CASE i # 1 /\ j # 1
    BY <2>4, <1>1, <1>2 DEF Injective
  <2>5. QED
    BY <2>1, <2>2, <2>3, <2>4
<1>3. Injective(t)
  BY <1>2 DEF Injective
<1>4. QED
  BY <1>3 DEF t

LEMMA InjectiveConcat ==
  ASSUME NEW S, NEW s \in Seq(S), NEW t \in Seq(S),
         Injective(s), Injective(t), Disjoint(s, t)
  PROVE  Injective(s \o t)
<1> DEFINE u == s \o t
<1>1. /\ Len(u) = Len(s) + Len(t)
      /\ \A i \in 1..Len(s) : u[i] = s[i]
      /\ \A i \in (Len(s) + 1)..Len(u) : /\ i - Len(s) \in 1..Len(t)
                                         /\ u[i] = t[i - Len(s)]
      /\ Len(s) \in Nat /\ Len(t) \in Nat
  OBVIOUS
<1> HIDE DEF u
<1>2. ASSUME NEW i \in 1..Len(u), NEW j \in 1..Len(u), u[i] = u[j]
      PROVE  i = j
  <2>1. CASE i <= Len(s) /\ j <= Len(s)
    BY <2>1, <1>1, <1>2 DEF Injective
  <2>2. CASE i <= Len(s) /\ j > Len(s)
    BY <2>2, <1>1, <1>2 DEF Disjoint
  <2>3. CASE i > Len(s) /\ j <= Len(s)
    BY <2>3, <1>1, <1>2 DEF Disjoint
  <2>4. CASE i > Len(s) /\ j > Len(s)
    <3>1. /\ i - Len(s) \in 1..Len(t)
          /\ j - Len(s) \in 1..Len(t)
          /\ t[i - Len(s)] = t[j - Len(s)]
      BY <2>4, <1>1, <1>2
    <3>2. i - Len(s) = j - Len(s)
      BY <3>1 DEF Injective
    <3>3. QED
      BY <3>2, <1>1
  <2>5. QED
    BY <1>1, <2>1, <2>2, <2>3, <2>4
<1>3. Injective(u)
  BY <1>2 DEF Injective
<1>4. QED
  BY <1>3 DEF u

LEMMA DisjointConcat ==
  ASSUME NEW S, NEW s \in Seq(S), NEW t \in Seq(S), NEW u \in Seq(S),
         Disjoint(u, s), Disjoint(u, t)
  PROVE  Disjoint(u, s \o t)
<1>1. \A i \in 1..Len(s \o t) : \/ i \in 1..Len(s) /\ (s \o t)[i] = s[i]
                                \/ /\ i - Len(s) \in 1..Len(t)
                                   /\ (s \o t)[i] = t[i - Len(s)]
  OBVIOUS
<1>2. QED
  BY <1>1 DEF Disjoint

LEMMA DisjointAppend ==
  ASSUME NEW S, NEW s \in Seq(S), NEW t \in Seq(S), NEW x \in S,
         Disjoint(s, t), ~Holds(s, x)
  PROVE  Disjoint(s, Append(t, x))
  BY AppendProperties DEF Disjoint, Holds

LEMMA DisjointTail ==
  ASSUME NEW S, NEW s \in Seq(S), NEW t \in Seq(S), t # << >>,
         Disjoint(s, t)
  PROVE  Disjoint(s, Tail(t)) /\ ~Holds(s, Head(t))
  BY TailFacts DEF Disjoint, Holds

LEMMA DisjointCons ==
  ASSUME NEW S, NEW s \in Seq(S), NEW t \in Seq(S), NEW x \in S,
         Disjoint(s, t), ~Holds(t, x)
  PROVE  Disjoint(<<x>> \o s, t)
<1>1. \A i \in 1..Len(<<x>> \o s) : \/ (<<x>> \o s)[i] = x
                                    \/ /\ i - 1 \in 1..Len(s)
                                       /\ (<<x>> \o s)[i] = s[i - 1]
  OBVIOUS
<1>2. QED
  BY <1>1 DEF Disjoint, Holds

Made == Len(wire) + Len(unsent) + IF pc = "encode" THEN Len(out) ELSE 0

Content(b) == [data |-> b.data, last_buf |-> b.last_buf]

(* What a running call may assume of the chain it was passed. *)
CallInv ==
  /\ pc # "idle" => status = "open"
  /\ pc = "encode" =>
       \A i \in 1..Len(in) :
         /\ recv <= in[i].end /\ in[i].end <= stream.eof
         /\ \A j \in 1..Len(in) : i <= j => in[i].end <= in[j].end
         /\ in[i].last_buf => /\ i = Len(in)
                              /\ stream.clean
                              /\ in[i].end = stream.eof

(* Where the parser stands in the stream, at frame k. *)
ParserAt(k) ==
  /\ k \in 1..Len(stream.cuts)
  /\ recv = stream.cuts[k] + Len(response_frame.header)
              + response_frame.payload_seen
  /\ response_frame.header = Bytes(stream.cuts[k], Len(response_frame.header))
  /\ response_frame.header_ready =>
       /\ k <= Messages(stream)
       /\ Len(response_frame.header) = HeaderSize
       /\ response_frame.length = FrameSize(stream, k) - HeaderSize
       /\ response_frame.length <= MaxFrameSize
       /\ response_frame.payload_seen < response_frame.length
       /\ response_frame_buf.data =
            Bytes(stream.cuts[k], HeaderSize + response_frame.payload_seen)
       /\ HeaderSize + response_frame.length <= response_frame_buf.cap
  /\ ~response_frame.header_ready =>
       /\ Len(response_frame.header) < HeaderSize
       /\ response_frame.payload_seen = 0
       /\ response_frame_buf.data = << >>

ParserInv ==
  status = "open" /\ ~trailers_sent =>
    /\ ParserAt(Made + 1)
    /\ \A k \in 1..Made : Legal(stream, k)

CountInv ==
  /\ Made <= Messages(stream) + 1
  /\ Made = Messages(stream) + 1 => Complete(stream)
  /\ status = "open" /\ trailers_sent =>
       /\ Made = Messages(stream) + 1
       /\ pc = "encode" => in = << >>

(* Every buffer has one owner among the chains, and one that is still to be
   sent is not free. *)
ChainsInv ==
  /\ Injective(response_free)
  /\ Injective(response_busy)
  /\ Injective(out)
  /\ Injective(unsent)
  /\ Disjoint(response_free, response_busy)
  /\ Disjoint(response_free, out)
  /\ Disjoint(response_busy, out)
  /\ Disjoint(response_free, unsent)
  /\ pc = "encode" => Disjoint(unsent, out)
  /\ pc \in {"idle", "recycle"} => out = << >>
  /\ status = "open" =>
       Len(response_free) + Len(response_busy) + Len(out) = Len(mem)

ContentInv ==
  /\ \A i \in 1..Len(wire) : wire[i] = Block(stream, i)
  /\ \A i \in 1..Len(unsent) :
       Content(mem[unsent[i]]) = Block(stream, Len(wire) + i)
  /\ pc = "encode" =>
       \A i \in 1..Len(out) :
         Content(mem[out[i]]) = Block(stream, Len(wire) + Len(unsent) + i)

(* NoOverrun between two turns of the loop. *)
StorageHolds ==
  /\ Len(response_frame_buf.data) <= response_frame_buf.cap
  /\ \A i \in 1..Len(mem) : EncodedLength(Len(mem[i].data)) <= mem[i].cap

IInv ==
  /\ TypeOK
  /\ CallInv
  /\ ParserInv
  /\ CountInv
  /\ ChainsInv
  /\ ContentInv
  /\ StorageHolds
  /\ RejectsOnlyBadStreams

-----------------------------------------------------------------------------
(* The operators the model is built from.                                  *)

(* What reserve_temp_buf settles on holds what was asked for. *)
LEMMA GrownHolds ==
  ASSUME NEW current \in Nat, NEW required \in Nat
  PROVE  /\ Grown(current, required) \in Nat
         /\ Grown(current, required) >= required
<1> DEFINE base  == IF current = 0 THEN InitialCapacity ELSE current
           rungs == {c \in Ladder(base) : c >= required}
<1>1. base \in Nat /\ MaxSize \in Nat
  BY CapacityAssumption
<1>2. rungs \subseteq Nat /\ \A c \in rungs : c >= required
  BY <1>1 DEF Ladder
<1>3. Grown(current, required) =
        IF current >= required THEN current
        ELSE IF rungs = {} THEN required
        ELSE CHOOSE c \in rungs : \A d \in rungs : c <= d
  BY DEF Grown
<1> HIDE DEF rungs
<1>4. rungs # {} => \E c \in rungs : \A d \in rungs : c <= d
  BY <1>2, LeastElement
<1> DEFINE least == CHOOSE c \in rungs : \A d \in rungs : c <= d
<1>5. rungs # {} => least \in rungs
  BY <1>4
<1>6. Grown(current, required) =
        IF current >= required THEN current
        ELSE IF rungs = {} THEN required ELSE least
  BY <1>3
<1> HIDE DEF least
<1>7. CASE current >= required
  BY <1>6, <1>7
<1>8. CASE ~ (current >= required) /\ rungs = {}
  BY <1>6, <1>8
<1>9. CASE ~ (current >= required) /\ rungs # {}
  BY <1>2, <1>5, <1>6, <1>9
<1>10. QED
  BY <1>7, <1>8, <1>9

(* Consecutive pieces of the stream join to one. *)
LEMMA BytesFacts ==
  ASSUME NEW p \in Nat, NEW n \in Nat
  PROVE  /\ Bytes(p, n) \in Seq(Nat)
         /\ Len(Bytes(p, n)) = n
         /\ n # 0 => Bytes(p, n)[1] = p
         /\ Bytes(p, 0) = << >>
         /\ \A m \in Nat : Bytes(p, n) \o Bytes(p + n, m) = Bytes(p, n + m)
  BY DEF Bytes

(* Base64 of n bytes takes a number of bytes. *)
LEMMA EncodedLengthNat ==
  ASSUME NEW n \in Nat
  PROVE  EncodedLength(n) \in Nat /\ EncodedLength(0) = 0
  BY DEF EncodedLength

(* A block that was sent leaves its storage to the buffer. *)
LEMMA BufferEmptied ==
  ASSUME NEW b \in Buffers
  PROVE  /\ [b EXCEPT !.data = << >>] \in Buffers
         /\ [b EXCEPT !.data = << >>].cap = b.cap
         /\ [b EXCEPT !.data = << >>].data = << >>
<1>1. ASSUME NEW d \in Seq(Nat)
      PROVE  [b EXCEPT !.data = d] \in Buffers
  BY DEF Buffers
<1>2. << >> \in Seq(Nat)
  OBVIOUS
<1>3. QED
  BY <1>1, <1>2 DEF Buffers

(* The streams are well formed. *)
LEMMA StreamFacts ==
  ASSUME stream \in Streams
  PROVE  /\ stream.cuts \in Seq(Nat)
         /\ stream.eof \in Nat
         /\ stream.trailer \in Nat
         /\ stream.clean \in BOOLEAN
         /\ Messages(stream) \in Nat
         /\ Len(stream.cuts) = Messages(stream) + 1
         /\ stream.cuts[1] = 0
         /\ \A k \in 1..Len(stream.cuts) : stream.cuts[k] \in Nat
         /\ \A j, k \in 1..Len(stream.cuts) :
              j < k => stream.cuts[j] + HeaderSize <= stream.cuts[k]
         /\ LastCut(stream) = stream.cuts[Messages(stream) + 1]
         /\ stream.eof <= LastCut(stream)
         /\ \A k \in 1..Messages(stream) : stream.cuts[k] < stream.eof
<1>1. StreamOK(stream)
  BY TextAssumption
<1>2. QED
  BY <1>1 DEF StreamOK, Messages, LastCut

(* Every listed frame is as long as its header, at least. *)
LEMMA FrameFacts ==
  ASSUME stream \in Streams, NEW k \in 1..Messages(stream)
  PROVE  /\ FrameSize(stream, k) \in Nat
         /\ FrameSize(stream, k) >= HeaderSize
         /\ stream.cuts[k + 1] = stream.cuts[k] + FrameSize(stream, k)
         /\ FrameSize(stream, k) - HeaderSize \in Nat
<1>1. /\ k \in 1..Len(stream.cuts) /\ k + 1 \in 1..Len(stream.cuts)
      /\ k < k + 1
  <2>1. Messages(stream) \in Nat /\ Len(stream.cuts) = Messages(stream) + 1
    BY StreamFacts
  <2>2. QED
    BY ONLY <2>1, k \in 1..Messages(stream)
<1>2. /\ stream.cuts[k] \in Nat
      /\ stream.cuts[k + 1] \in Nat
      /\ stream.cuts[k] + HeaderSize <= stream.cuts[k + 1]
  BY <1>1, StreamFacts
<1>3. QED
  BY <1>2, HeaderSizeAssumption DEF FrameSize

(* The header at the start of frame k carries its length. *)
LEMMA LengthFieldFacts ==
  ASSUME stream \in Streams
  PROVE  /\ LengthField(stream) \in [Nat -> Nat]
         /\ \A k \in 1..Messages(stream) :
              LengthField(stream)[stream.cuts[k]] =
                FrameSize(stream, k) - HeaderSize
<1>1. ASSUME NEW p \in Nat, NEW k \in 1..Messages(stream),
             stream.cuts[k] = p
      PROVE  LengthField(stream)[p] = FrameSize(stream, k) - HeaderSize
  <2>1. ASSUME NEW j \in 1..Messages(stream), stream.cuts[j] = p
        PROVE  j = k
    <3>1. Messages(stream) \in Nat /\ Len(stream.cuts) = Messages(stream) + 1
      BY StreamFacts
    <3>2. j \in 1..Len(stream.cuts) /\ k \in 1..Len(stream.cuts)
      BY <3>1
    <3>3. /\ j < k => p + HeaderSize <= p
          /\ k < j => p + HeaderSize <= p
      BY <1>1, <2>1, <3>2, StreamFacts
    <3>4. QED
      BY <3>2, <3>3, HeaderSizeAssumption
  <2>2. (CHOOSE j \in 1..Messages(stream) : stream.cuts[j] = p) = k
    BY <1>1, <2>1
  <2>3. QED
    BY <1>1, <2>2 DEF LengthField
<1>2. ASSUME NEW p \in Nat
      PROVE  LengthField(stream)[p] \in Nat
  <2>1. CASE \E k \in 1..Messages(stream) : stream.cuts[k] = p
    BY <2>1, <1>1, FrameFacts
  <2>2. CASE ~ \E k \in 1..Messages(stream) : stream.cuts[k] = p
    BY <2>2 DEF LengthField
  <2>3. QED
    BY <2>1, <2>2
<1>3. \A k \in 1..Messages(stream) : stream.cuts[k] \in Nat
  BY StreamFacts
<1>4. QED
  BY <1>1, <1>2, <1>3 DEF LengthField

-----------------------------------------------------------------------------
(* Encoding a block.                                                       *)

(* The buffer that a block goes into: new, or popped off the free chain; on
   no other chain, and large enough. *)
Takes(id, data, last_buf) ==
  /\ mem' \in Seq(Buffers)
  /\ Len(mem) <= Len(mem')
  /\ id \in 1..Len(mem')
  /\ Content(mem'[id]) = [data |-> data, last_buf |-> last_buf]
  /\ EncodedLength(Len(mem'[id].data)) <= mem'[id].cap
  /\ \A j \in 1..Len(mem) : j # id => mem'[j] = mem[j]
  /\ \A j \in 1..Len(mem') : j # id => j \in 1..Len(mem)
  /\ out' = Append(out, id)
  /\ response_free' \in Seq(1..Len(mem))
  /\ Injective(response_free')
  /\ \A i \in 1..Len(response_free') : Holds(response_free, response_free'[i])
  /\ ~Holds(response_free', id)
  /\ ~Holds(response_busy, id)
  /\ ~Holds(out, id)
  /\ ~Holds(unsent, id)
  /\ Len(response_free') + Len(mem) + 1 = Len(response_free) + Len(mem')

LEMMA EncodeBlockTakes ==
  ASSUME TypeOK, ChainsInv,
         NEW data \in Seq(Nat), NEW last_buf \in BOOLEAN,
         EncodeBlock(data, last_buf)
  PROVE  \E id \in Nat : Takes(id, data, last_buf)
<1> DEFINE Blk(c) == [data |-> data, last_buf |-> last_buf,
                      cap |-> Grown(c, EncodedLength(Len(data)))]
<1>0. /\ mem \in Seq(Buffers)
      /\ out \in Seq(1..Len(mem))
      /\ response_free \in Seq(1..Len(mem))
      /\ response_busy \in Seq(1..Len(mem))
      /\ unsent \in Seq(1..Len(mem))
  BY DEF TypeOK
<1>1. ASSUME NEW c \in Nat
      PROVE  /\ Blk(c) \in Buffers
             /\ Content(Blk(c)) = [data |-> data, last_buf |-> last_buf]
             /\ EncodedLength(Len(Blk(c).data)) <= Blk(c).cap
  <2>1. EncodedLength(Len(data)) \in Nat
    BY EncodedLengthNat
  <2>2. /\ Grown(c, EncodedLength(Len(data))) \in Nat
        /\ Grown(c, EncodedLength(Len(data))) >= EncodedLength(Len(data))
    BY <2>1, GrownHolds
  <2>3. QED
    BY <2>1, <2>2 DEF Buffers, Content
<1>2. CASE response_free = << >>
  <2> DEFINE id == Len(mem) + 1
  <2>1. /\ mem' = Append(mem, Blk(0))
        /\ response_free' = << >>
        /\ out' = Append(out, id)
    BY <1>2 DEF EncodeBlock, FreeRest, Linked
  <2>2. Blk(0) \in Buffers
    BY <1>1
  <2> HIDE DEF Blk
  <2>3. /\ mem' \in Seq(Buffers)
        /\ Len(mem') = Len(mem) + 1
        /\ mem'[id] = Blk(0)
        /\ \A j \in 1..Len(mem) : mem'[j] = mem[j]
        /\ Len(mem) \in Nat
    BY <1>0, <2>1, <2>2, AppendProperties
  <2>4. /\ ~Holds(response_busy, id)
        /\ ~Holds(out, id)
        /\ ~Holds(unsent, id)
    <3>1. id \notin 1..Len(mem)
      BY <2>3
    <3>2. QED
      BY <1>0, <3>1, HoldsMembers
  <2>5. /\ response_free' \in Seq(1..Len(mem))
        /\ Len(response_free') = 0
        /\ Len(response_free) = 0
    BY <1>2, <2>1
  <2>6. /\ Injective(response_free')
        /\ ~Holds(response_free', id)
        /\ \A i \in 1..Len(response_free') :
             Holds(response_free, response_free'[i])
    BY <2>5 DEF Injective, Holds
  <2>7. /\ Content(mem'[id]) = [data |-> data, last_buf |-> last_buf]
        /\ EncodedLength(Len(mem'[id].data)) <= mem'[id].cap
    BY <1>1, <2>3
  <2>8. /\ id \in Nat /\ id \in 1..Len(mem')
        /\ Len(mem) <= Len(mem')
        /\ \A j \in 1..Len(mem') : j # id => j \in 1..Len(mem)
        /\ Len(response_free') + Len(mem) + 1 = Len(response_free) + Len(mem')
    BY <2>3, <2>5
  <2> HIDE DEF id
  <2>9. Takes(id, data, last_buf)
    BY <2>1, <2>3, <2>4, <2>5, <2>6, <2>7, <2>8 DEF Takes
  <2>10. QED
    BY <2>8, <2>9
<1>3. CASE response_free # << >>
  <2> DEFINE id == Head(response_free)
  <2>1. /\ mem' = [mem EXCEPT ![id] = Blk(mem[id].cap)]
        /\ response_free' = Tail(response_free)
        /\ out' = Append(out, id)
    BY <1>3 DEF EncodeBlock, FreeRest, Linked
  <2>2. /\ id = response_free[1]
        /\ id \in 1..Len(mem)
        /\ Len(response_free) >= 1
        /\ response_free' \in Seq(1..Len(mem))
        /\ Len(response_free') = Len(response_free) - 1
        /\ \A i \in 1..(Len(response_free) - 1) :
             response_free'[i] = response_free[i + 1]
    BY <1>0, <1>3, <2>1, TailFacts
  <2>3. Injective(response_free') /\ ~Holds(response_free', id)
    BY <1>0, <1>3, <2>1, InjectiveTail DEF ChainsInv
  <2> HIDE DEF id
  <2>4. mem[id].cap \in Nat
    <3>1. mem[id] \in Buffers
      BY <1>0, <2>2
    <3>2. QED
      BY <3>1 DEF Buffers
  <2>5. Blk(mem[id].cap) \in Buffers
    BY <1>1, <2>4
  <2>6. /\ Content(Blk(mem[id].cap)) = [data |-> data, last_buf |-> last_buf]
        /\ EncodedLength(Len(Blk(mem[id].cap).data)) <= Blk(mem[id].cap).cap
    BY <1>1, <2>4
  <2> HIDE DEF Blk
  <2>7. /\ mem' \in Seq(Buffers)
        /\ Len(mem') = Len(mem)
        /\ mem'[id] = Blk(mem[id].cap)
        /\ \A j \in 1..Len(mem) : j # id => mem'[j] = mem[j]
        /\ Len(mem) \in Nat
    BY <1>0, <2>1, <2>2, <2>5, ExceptSeq
  <2>8. /\ ~Holds(response_busy, id)
        /\ ~Holds(out, id)
        /\ ~Holds(unsent, id)
    BY <2>2, <1>0 DEF ChainsInv, Disjoint, Holds
  <2>9. \A i \in 1..Len(response_free') :
          Holds(response_free, response_free'[i])
    <3>1. ASSUME NEW i \in 1..Len(response_free')
          PROVE  Holds(response_free, response_free'[i])
      <4>1. i + 1 \in 1..Len(response_free) /\ i \in 1..(Len(response_free) - 1)
        BY <1>0, <2>2
      <4>2. response_free[i + 1] = response_free'[i]
        BY <4>1, <2>2
      <4>3. QED
        BY <4>1, <4>2 DEF Holds
    <3>2. QED
      BY <3>1
  <2>10. /\ id \in Nat /\ id \in 1..Len(mem')
         /\ Len(mem) <= Len(mem')
         /\ \A j \in 1..Len(mem') : j # id => j \in 1..Len(mem)
         /\ Len(response_free') + Len(mem) + 1
               = Len(response_free) + Len(mem')
    BY <1>0, <2>2, <2>7
  <2>11. Takes(id, data, last_buf)
    BY <2>1, <2>2, <2>3, <2>6, <2>7, <2>8, <2>9, <2>10 DEF Takes
  <2>12. QED
    BY <2>10, <2>11
<1>4. QED
  BY <1>2, <1>3

(* Every copy into an encoded buffer fits. *)
BlocksFit == \A i \in 1..Len(mem) : EncodedLength(Len(mem[i].data)) <= mem[i].cap

ChainsTyped ==
  /\ mem \in Seq(Buffers)
  /\ out \in Seq(1..Len(mem))
  /\ response_free \in Seq(1..Len(mem))
  /\ response_busy \in Seq(1..Len(mem))
  /\ unsent \in Seq(1..Len(mem))

(* Encoding block Made + 1 adds it to the chain and disturbs no other. *)
LEMMA EncodeBlockKeeps ==
  ASSUME TypeOK, ChainsInv, ContentInv, BlocksFit, pc = "encode",
         NEW data \in Seq(Nat), NEW last_buf \in BOOLEAN,
         EncodeBlock(data, last_buf),
         [data |-> data, last_buf |-> last_buf] = Block(stream, Made + 1),
         UNCHANGED <<stream, status, pc, response_busy, unsent, wire>>
  PROVE  ChainsTyped' /\ ChainsInv' /\ ContentInv' /\ BlocksFit'
           /\ Made' = Made + 1
<1>1. PICK id \in Nat : Takes(id, data, last_buf)
  BY EncodeBlockTakes
<1>2. /\ mem \in Seq(Buffers)
      /\ out \in Seq(1..Len(mem))
      /\ response_free \in Seq(1..Len(mem))
      /\ response_busy \in Seq(1..Len(mem))
      /\ unsent \in Seq(1..Len(mem))
      /\ Len(mem) \in Nat /\ Len(wire) \in Nat
      /\ Len(out) \in Nat /\ Len(unsent) \in Nat
  BY DEF TypeOK
<1>3. /\ mem' \in Seq(Buffers) /\ Len(mem') \in Nat
      /\ Len(mem) <= Len(mem')
      /\ id \in 1..Len(mem')
      /\ \A j \in 1..Len(mem) : j # id => mem'[j] = mem[j]
      /\ \A j \in 1..Len(mem') : j # id => j \in 1..Len(mem)
      /\ Content(mem'[id]) = [data |-> data, last_buf |-> last_buf]
      /\ EncodedLength(Len(mem'[id].data)) <= mem'[id].cap
  BY <1>1 DEF Takes
<1>4. 1..Len(mem) \subseteq 1..Len(mem')
  BY <1>2, <1>3
<1>5. /\ out \in Seq(1..Len(mem'))
      /\ response_free' \in Seq(1..Len(mem'))
      /\ response_busy' \in Seq(1..Len(mem'))
      /\ unsent' \in Seq(1..Len(mem'))
      /\ response_free' \in Seq(1..Len(mem))
  BY <1>1, <1>2, <1>4, SeqMonotonic DEF Takes
<1>6. /\ out' = Append(out, id)
      /\ out' \in Seq(1..Len(mem'))
      /\ Len(out') = Len(out) + 1
      /\ out'[Len(out) + 1] = id
      /\ \A i \in 1..Len(out) : out'[i] = out[i]
  BY <1>1, <1>3, <1>5, AppendProperties DEF Takes
<1>7. ChainsTyped'
  BY <1>3, <1>5, <1>6 DEF ChainsTyped
<1>8. Made' = Made + 1
  BY <1>2, <1>6 DEF Made
<1>9. /\ ~Holds(response_free', id)
      /\ ~Holds(response_busy, id)
      /\ ~Holds(out, id)
      /\ ~Holds(unsent, id)
      /\ Injective(response_free')
      /\ \A i \in 1..Len(response_free') :
           Holds(response_free, response_free'[i])
      /\ Len(response_free') + Len(mem) + 1 = Len(response_free) + Len(mem')
  BY <1>1 DEF Takes
<1>10. ChainsInv'
  <2>1. Injective(out')
    BY <1>3, <1>5, <1>6, <1>9, InjectiveAppend DEF ChainsInv
  <2>2. /\ Disjoint(response_busy, out')
        /\ Disjoint(unsent, out')
    BY <1>2, <1>3, <1>5, <1>6, <1>9, DisjointAppend DEF ChainsInv
  <2>3. /\ Disjoint(response_free', response_busy)
        /\ Disjoint(response_free', unsent)
        /\ Disjoint(response_free', out)
    BY <1>9 DEF Disjoint, Holds, ChainsInv
  <2>4. Disjoint(response_free', out')
    BY <1>3, <1>5, <1>6, <1>9, <2>3, DisjointAppend
  <2>5. status = "open" =>
          Len(response_free') + Len(response_busy) + Len(out') = Len(mem')
    <3>1. status = "open" =>
            Len(response_free) + Len(response_busy) + Len(out) = Len(mem)
      BY DEF ChainsInv
    <3>2. /\ Len(response_free) \in Nat /\ Len(response_free') \in Nat
          /\ Len(response_busy) \in Nat
      BY <1>2, <1>5
    <3>3. QED
      BY <1>2, <1>3, <1>6, <1>9, <3>1, <3>2
  <2>6. QED
    BY <1>9, <2>1, <2>2, <2>3, <2>4, <2>5 DEF ChainsInv
<1>11. ContentInv'
  <2>1. ASSUME NEW i \in 1..Len(unsent)
        PROVE  Content(mem'[unsent[i]]) = Block(stream, Len(wire) + i)
    <3>1. unsent[i] \in 1..Len(mem) /\ unsent[i] # id
      BY <1>2, <1>9 DEF Holds
    <3>2. mem'[unsent[i]] = mem[unsent[i]]
      BY <1>3, <3>1
    <3>3. QED
      BY <3>2 DEF ContentInv
  <2>2. ASSUME NEW i \in 1..Len(out')
        PROVE  Content(mem'[out'[i]])
                 = Block(stream, Len(wire) + Len(unsent) + i)
    <3>1. CASE i \in 1..Len(out)
      <4>1. out[i] \in 1..Len(mem) /\ out[i] # id /\ out'[i] = out[i]
        <5>1. out[i] \in 1..Len(mem)
          BY <1>2, <3>1
        <5>2. out[i] # id
          BY <1>9, <3>1 DEF Holds
        <5>3. out'[i] = out[i]
          BY <1>6, <3>1
        <5>4. QED
          BY <5>1, <5>2, <5>3
      <4>2. mem'[out[i]] = mem[out[i]]
        BY <1>3, <4>1
      <4>3. QED
        BY <3>1, <4>1, <4>2 DEF ContentInv
    <3>2. CASE i = Len(out) + 1
      <4>1. Made + 1 = Len(wire) + Len(unsent) + i
        BY <1>2, <3>2 DEF Made
      <4>2. QED
        BY <1>3, <1>6, <3>2, <4>1
    <3>3. QED
      BY <1>2, <1>6, <3>1, <3>2
  <2>3. QED
    BY <2>1, <2>2 DEF ContentInv
<1>12. BlocksFit'
  <2>1. ASSUME NEW j \in 1..Len(mem')
        PROVE  EncodedLength(Len(mem'[j].data)) <= mem'[j].cap
    <3>1. CASE j = id
      BY <1>3, <3>1
    <3>2. CASE j # id
      BY <1>3, <3>2 DEF BlocksFit
    <3>3. QED
      BY <3>1, <3>2
  <2>2. QED
    BY <2>1 DEF BlocksFit
<1>13. QED
  BY <1>7, <1>8, <1>10, <1>11, <1>12

-----------------------------------------------------------------------------
(* One turn of the loop over the chain.                                    *)

LEMMA MadeNat == TypeOK => Made \in Nat
<1> SUFFICES ASSUME TypeOK
             PROVE  Made \in Nat
  OBVIOUS
<1>1. Len(wire) \in Nat /\ Len(unsent) \in Nat /\ Len(out) \in Nat
  BY DEF TypeOK
<1>2. CASE pc = "encode"
  BY <1>1, <1>2 DEF Made
<1>3. CASE pc # "encode"
  BY <1>1, <1>3 DEF Made
<1>4. QED
  BY <1>2, <1>3

(* The head of the chain while the loop is running. *)
LEMMA HeadFacts ==
  ASSUME IInv, pc = "encode", in # << >>
  PROVE  /\ status = "open" /\ ~trailers_sent
         /\ recv \in Nat /\ SrcLen \in Nat
         /\ Head(in) = in[1] /\ 1 \in 1..Len(in)
         /\ Head(in).end \in Nat
         /\ Head(in).end = recv + SrcLen
         /\ Head(in).end <= stream.eof
         /\ \A i \in 1..Len(in) : Head(in).end <= in[i].end
         /\ Head(in).last_buf => /\ Len(in) = 1
                                 /\ stream.clean
                                 /\ Head(in).end = stream.eof
         /\ ParserAt(Made + 1)
         /\ \A k \in 1..Made : Legal(stream, k)
         /\ Made \in Nat
<1>1. /\ in \in Seq(NativeBufs)
      /\ recv \in Nat
      /\ stream.eof \in Nat
      /\ trailers_sent \in BOOLEAN
  BY StreamFacts DEF IInv, TypeOK
<1>2. Head(in) = in[1] /\ 1 \in 1..Len(in) /\ in[1] \in NativeBufs
  BY <1>1, TailFacts
<1>3. in[1].end \in Nat
  BY <1>2 DEF NativeBufs
<1>4. status = "open"
  BY DEF IInv, CallInv
<1>5. ~trailers_sent
  BY <1>4 DEF IInv, CountInv
<1>6. /\ recv <= in[1].end /\ in[1].end <= stream.eof
      /\ \A j \in 1..Len(in) : 1 <= j => in[1].end <= in[j].end
      /\ in[1].last_buf => /\ 1 = Len(in)
                           /\ stream.clean
                           /\ in[1].end = stream.eof
  BY <1>2 DEF IInv, CallInv
<1>7. SrcLen \in Nat /\ in[1].end = recv + SrcLen
  BY <1>1, <1>2, <1>3, <1>6 DEF SrcLen
<1>8. \A j \in 1..Len(in) : in[1].end <= in[j].end
  BY <1>6
<1>9. ParserAt(Made + 1) /\ \A k \in 1..Made : Legal(stream, k)
  BY <1>4, <1>5 DEF IInv, ParserInv
<1>10. Made \in Nat
  BY MadeNat DEF IInv
<1>11. QED
  BY <1>1, <1>2, <1>3, <1>4, <1>5, <1>6, <1>7, <1>8, <1>9, <1>10

(* Consuming bytes of the head keeps the rest of the chain ahead. *)
LEMMA ConsumeKeepsCall ==
  ASSUME IInv, pc = "encode", in # << >>,
         NEW n \in Nat, n <= SrcLen, recv' = recv + n,
         UNCHANGED <<stream, status, pc, in>>
  PROVE  CallInv' /\ recv' \in 0..stream.eof
<1>1. /\ recv \in Nat /\ SrcLen \in Nat
      /\ Head(in).end = recv + SrcLen
      /\ Head(in).end <= stream.eof
      /\ \A i \in 1..Len(in) : Head(in).end <= in[i].end
      /\ in \in Seq(NativeBufs)
      /\ stream.eof \in Nat
  BY HeadFacts, StreamFacts DEF IInv, TypeOK
<1>2. /\ recv + n \in Nat
      /\ recv + n <= Head(in).end
      /\ Head(in).end \in Nat
  BY <1>1
<1>3. ASSUME NEW i \in 1..Len(in)
      PROVE  recv' <= in[i].end
  <2>1. in[i] \in NativeBufs
    BY <1>1
  <2>2. in[i].end \in Nat
    BY <2>1 DEF NativeBufs
  <2>3. Head(in).end <= in[i].end
    BY <1>1
  <2>4. QED
    BY <1>2, <2>2, <2>3
<1>4. CallInv'
  BY <1>3 DEF IInv, CallInv
<1>5. QED
  BY <1>1, <1>2, <1>4

(* What the parser makes of header bytes. *)
LEMMA HeaderStep ==
  ASSUME IInv, InHeader
  PROVE  /\ Taken \in Nat /\ Taken <= SrcLen
         /\ Parsed \in Parsers
         /\ Parsed.header = Bytes(stream.cuts[Made + 1], Len(Parsed.header))
         /\ Len(Parsed.header) \in Nat /\ Len(Parsed.header) <= HeaderSize
         /\ Parsed.payload_seen = 0
         /\ recv + Taken = stream.cuts[Made + 1] + Len(Parsed.header)
         /\ ~Parsed.header_ready => Len(Parsed.header) < HeaderSize
         /\ Parsed.header_ready =>
              /\ Made + 1 \in 1..Messages(stream)
              /\ Len(Parsed.header) = HeaderSize
              /\ Parsed.length = FrameSize(stream, Made + 1) - HeaderSize
<1> DEFINE p == response_frame
           k == Made + 1
           start == stream.cuts[k]
           len == Len(p.header)
<1>1. /\ status = "open" /\ ~trailers_sent
      /\ recv \in Nat /\ SrcLen \in Nat
      /\ recv + SrcLen <= stream.eof
      /\ ParserAt(k) /\ k \in Nat
  BY HeadFacts DEF InHeader
<1>2. /\ stream \in Streams
      /\ p \in Parsers
      /\ ~p.header_ready
  BY DEF IInv, TypeOK, InHeader
<1>3. /\ p.header \in Seq(Nat) /\ len \in Nat
      /\ p.length \in Nat
      /\ p = [header |-> p.header, header_ready |-> p.header_ready,
              length |-> p.length, payload_seen |-> p.payload_seen]
  BY <1>2 DEF Parsers
<1>4. /\ k \in 1..Len(stream.cuts)
      /\ recv = start + len + p.payload_seen
      /\ p.header = Bytes(start, len)
      /\ len < HeaderSize
      /\ p.payload_seen = 0
  BY <1>1, <1>2 DEF ParserAt
<1>5. start \in Nat /\ recv = start + len
  BY <1>2, <1>3, <1>4, StreamFacts
<1>6. /\ Taken = Lesser(SrcLen, HeaderSize - len)
      /\ HeaderSize \in Nat /\ HeaderSize # 0
  BY <1>2, HeaderSizeAssumption DEF Taken, Consumes
<1>7. /\ Taken \in Nat /\ Taken <= SrcLen /\ len + Taken <= HeaderSize
  BY <1>1, <1>3, <1>4, <1>6 DEF Lesser
<1> DEFINE h == p.header \o Bytes(recv, Taken)
<1>8. /\ h = Bytes(start, len + Taken)
      /\ Len(h) = len + Taken
      /\ h \in Seq(Nat)
      /\ len + Taken # 0 => h[1] = start
  <2>1. Bytes(start, len) \o Bytes(start + len, Taken)
          = Bytes(start, len + Taken)
    BY <1>3, <1>5, <1>7, BytesFacts
  <2>2. h = Bytes(start, len + Taken)
    BY <1>4, <1>5, <2>1
  <2>3. len + Taken \in Nat
    BY <1>3, <1>7
  <2> HIDE DEF h, len
  <2>4. QED
    BY <1>5, <2>2, <2>3, BytesFacts
<1>9. Parsed = IF Len(h) = HeaderSize
               THEN [p EXCEPT !.header = h, !.header_ready = TRUE,
                              !.length = LengthField(stream)[h[1]]]
               ELSE [p EXCEPT !.header = h]
  BY <1>2 DEF Parsed, AfterConsume, Taken
<1> HIDE DEF h
<1>10. CASE Len(h) = HeaderSize
  <2>1. h[1] = start
    BY <1>6, <1>8, <1>10
  <2>2. /\ Parsed.header = h
        /\ Parsed.header_ready
        /\ Parsed.length = LengthField(stream)[start]
        /\ Parsed.payload_seen = 0
        /\ Parsed = [header |-> h, header_ready |-> TRUE,
                     length |-> LengthField(stream)[start],
                     payload_seen |-> 0]
    BY <1>3, <1>4, <1>9, <1>10, <2>1
  <2>3. start + HeaderSize <= stream.eof
    <3>1. stream.eof \in Nat
      BY <1>2, StreamFacts
    <3>2. recv + Taken = start + HeaderSize
      BY <1>3, <1>5, <1>7, <1>8, <1>10
    <3>3. QED
      BY <1>1, <1>5, <1>6, <1>7, <3>1, <3>2
  <2>4. k # Len(stream.cuts)
    <3>1. stream.eof <= stream.cuts[Len(stream.cuts)] /\ stream.eof \in Nat
      BY <1>2, StreamFacts
    <3>2. QED
      BY <1>5, <1>6, <2>3, <3>1
  <2>5. Len(stream.cuts) = Messages(stream) + 1 /\ Messages(stream) \in Nat
    BY <1>2, StreamFacts
  <2>6. k \in 1..Messages(stream)
    BY <1>1, <1>4, <2>4, <2>5
  <2>7. /\ LengthField(stream)[start] = FrameSize(stream, k) - HeaderSize
        /\ LengthField(stream)[start] \in Nat
    BY <1>2, <1>5, <2>6, LengthFieldFacts
  <2>8. Parsed \in Parsers
    BY <1>8, <2>2, <2>7 DEF Parsers
  <2>9. QED
    BY <1>5, <1>6, <1>7, <1>8, <1>10, <2>2, <2>6, <2>7, <2>8
<1>11. CASE Len(h) # HeaderSize
  <2>1. Parsed = [p EXCEPT !.header = h]
    BY <1>9, <1>11
  <2>2. Parsed \in Parsers
    BY <1>2, <1>8, <2>1 DEF Parsers
  <2>3. /\ Parsed.header = h
        /\ Parsed.payload_seen = 0
        /\ Parsed.header_ready = p.header_ready
    BY <1>3, <1>4, <2>1
  <2>4. ~Parsed.header_ready
    BY <1>2, <2>3
  <2>5. QED
    BY <1>3, <1>5, <1>6, <1>7, <1>8, <1>11, <2>2, <2>3, <2>4
<1>12. QED
  BY <1>10, <1>11

(* What the parser makes of payload bytes, and what has been collected. *)
LEMMA PayloadStep ==
  ASSUME IInv, InPayload
  PROVE  /\ Taken \in Nat /\ Taken <= SrcLen
         /\ Made + 1 \in 1..Messages(stream)
         /\ Parsed \in Parsers
         /\ Parsed.header_ready
         /\ Parsed.header = response_frame.header
         /\ Len(Parsed.header) = HeaderSize
         /\ Parsed.length = FrameSize(stream, Made + 1) - HeaderSize
         /\ Parsed.length <= MaxFrameSize
         /\ Parsed.payload_seen <= Parsed.length
         /\ Parsed.header = Bytes(stream.cuts[Made + 1], Len(Parsed.header))
         /\ recv + Taken
              = stream.cuts[Made + 1] + HeaderSize + Parsed.payload_seen
         /\ Collected \in Seq(Nat)
         /\ Len(Collected) = HeaderSize + Parsed.payload_seen
         /\ Collected = Bytes(stream.cuts[Made + 1],
                              HeaderSize + Parsed.payload_seen)
         /\ HeaderSize + Parsed.length <= response_frame_buf.cap
<1> DEFINE p == response_frame
           k == Made + 1
           start == stream.cuts[k]
<1>1. /\ recv \in Nat /\ SrcLen \in Nat
      /\ ParserAt(k) /\ k \in Nat
  BY HeadFacts DEF InPayload
<1>2. /\ stream \in Streams
      /\ p \in Parsers
      /\ p.header_ready
  BY DEF IInv, TypeOK, InPayload
<1>3. p.length \in Nat /\ p.payload_seen \in Nat
  BY <1>2 DEF Parsers
<1>4. /\ k \in 1..Len(stream.cuts)
      /\ k <= Messages(stream)
      /\ Len(p.header) = HeaderSize
      /\ recv = start + HeaderSize + p.payload_seen
      /\ p.header = Bytes(start, Len(p.header))
      /\ p.length = FrameSize(stream, k) - HeaderSize
      /\ p.length <= MaxFrameSize
      /\ p.payload_seen < p.length
      /\ response_frame_buf.data = Bytes(start, HeaderSize + p.payload_seen)
      /\ HeaderSize + p.length <= response_frame_buf.cap
  BY <1>1, <1>2 DEF ParserAt
<1>5. start \in Nat /\ Messages(stream) \in Nat
  BY <1>2, <1>4, StreamFacts
<1>6. Taken = Lesser(SrcLen, p.length - p.payload_seen)
  BY <1>2 DEF Taken, Consumes
<1>7. /\ Taken \in Nat /\ Taken <= SrcLen
      /\ p.payload_seen + Taken <= p.length
  BY <1>1, <1>3, <1>4, <1>6 DEF Lesser
<1>8. Parsed = [p EXCEPT !.payload_seen = @ + Taken]
  BY <1>2 DEF Parsed, AfterConsume, Taken
<1>9. /\ Parsed \in Parsers
      /\ Parsed.header = p.header
      /\ Parsed.header_ready = p.header_ready
      /\ Parsed.length = p.length
      /\ Parsed.payload_seen = p.payload_seen + Taken
  <2>1. p.payload_seen + Taken \in Nat
    BY <1>3, <1>7
  <2>2. Parsed = [p EXCEPT !.payload_seen = p.payload_seen + Taken]
    BY <1>8
  <2>3. QED
    BY <1>2, <2>1, <2>2 DEF Parsers
<1>10. /\ HeaderSize \in Nat
       /\ HeaderSize + p.payload_seen \in Nat
       /\ HeaderSize + Parsed.payload_seen \in Nat
       /\ HeaderSize + Parsed.payload_seen
            = (HeaderSize + p.payload_seen) + Taken
       /\ recv = start + (HeaderSize + p.payload_seen)
  <2>1. HeaderSize \in Nat
    BY HeaderSizeAssumption
  <2>2. /\ start \in Nat /\ p.payload_seen \in Nat /\ Taken \in Nat
        /\ recv = start + HeaderSize + p.payload_seen
        /\ Parsed.payload_seen = p.payload_seen + Taken
    BY <1>3, <1>4, <1>5, <1>7, <1>9
  <2> HIDE DEF p, start
  <2>3. QED
    BY ONLY <2>1, <2>2
<1>11. Collected = Bytes(start, HeaderSize + Parsed.payload_seen)
  <2>1. Collected = Bytes(start, HeaderSize + p.payload_seen)
                      \o Bytes(start + (HeaderSize + p.payload_seen), Taken)
    BY <1>4, <1>10 DEF Collected
  <2> HIDE DEF p, start
  <2>2. Bytes(start, HeaderSize + p.payload_seen)
          \o Bytes(start + (HeaderSize + p.payload_seen), Taken)
        = Bytes(start, (HeaderSize + p.payload_seen) + Taken)
    BY <1>5, <1>7, <1>10, BytesFacts
  <2>3. QED
    BY <1>10, <2>1, <2>2
<1>12. /\ Collected \in Seq(Nat)
       /\ Len(Collected) = HeaderSize + Parsed.payload_seen
  BY <1>5, <1>10, <1>11, BytesFacts
<1>13. k \in 1..Messages(stream)
  BY <1>1, <1>4, <1>5
<1>14. recv + Taken = start + HeaderSize + Parsed.payload_seen
  BY <1>3, <1>5, <1>7, <1>9, <1>10
<1>15. QED
  BY <1>2, <1>4, <1>7, <1>9, <1>11, <1>12, <1>13, <1>14

(* A turn that encodes nothing leaves the chains as they are. *)
LEMMA ChainsUntouched ==
  ASSUME IInv,
         UNCHANGED <<stream, status, pc, out, response_free, response_busy,
                     mem, unsent, wire>>
  PROVE  ChainsInv' /\ ContentInv' /\ BlocksFit' /\ Made' = Made
<1>1. ChainsInv'
  BY DEF IInv, ChainsInv
<1>2. ContentInv'
  BY DEF IInv, ContentInv
<1>3. BlocksFit'
  BY DEF IInv, StorageHolds, BlocksFit
<1>4. Made' = Made
  BY DEF Made
<1>5. QED
  BY <1>1, <1>2, <1>3, <1>4

LEMMA ReadHeaderKeeps == IInv /\ ReadHeader => IInv'
<1> SUFFICES ASSUME IInv, ReadHeader
             PROVE  IInv'
  OBVIOUS
<1>1. /\ InHeader /\ pc = "encode" /\ in # << >>
      /\ ~Parsed.header_ready
      /\ response_frame' = Parsed
      /\ recv' = recv + Taken
      /\ UNCHANGED <<stream, upstream_done, status, pc, in, out,
                     response_frame_buf, response_free, response_busy,
                     trailers_sent, mem, unsent, wire>>
  BY DEF ReadHeader, InHeader
<1>2. CallInv' /\ recv' \in 0..stream.eof
  BY <1>1, HeaderStep, ConsumeKeepsCall
<1>3. ChainsInv' /\ ContentInv' /\ BlocksFit' /\ Made' = Made
  BY <1>1, ChainsUntouched
<1>4. /\ status = "open" /\ ~trailers_sent
      /\ ParserAt(Made + 1)
      /\ \A k \in 1..Made : Legal(stream, k)
  BY <1>1, HeadFacts
<1>5. TypeOK'
  BY <1>1, <1>2, HeaderStep DEF IInv, TypeOK
<1>6. ParserInv'
  <2>1. ParserAt(Made + 1)'
    <3>1. /\ Made + 1 \in 1..Len(stream.cuts)
          /\ response_frame_buf.data = << >>
      BY <1>1, <1>4 DEF ParserAt, InHeader
    <3>2. /\ Len(Parsed.header) < HeaderSize
          /\ Parsed.payload_seen = 0
          /\ Parsed.header = Bytes(stream.cuts[Made + 1], Len(Parsed.header))
          /\ Len(Parsed.header) \in Nat
          /\ recv + Taken = stream.cuts[Made + 1] + Len(Parsed.header)
      BY <1>1, HeaderStep
    <3>3. stream.cuts[Made + 1] \in Nat
      BY <3>1, StreamFacts DEF IInv, TypeOK
    <3>4. QED
      BY <1>1, <1>3, <3>1, <3>2, <3>3 DEF ParserAt
  <2>2. QED
    BY <1>1, <1>3, <1>4, <2>1 DEF ParserInv, Legal
<1>7. CountInv'
  BY <1>1, <1>3, <1>4 DEF IInv, CountInv
<1>8. StorageHolds'
  BY <1>1, <1>3 DEF IInv, StorageHolds, BlocksFit
<1>9. RejectsOnlyBadStreams'
  BY <1>1, <1>4 DEF RejectsOnlyBadStreams
<1>10. QED
  BY <1>2, <1>3, <1>5, <1>6, <1>7, <1>8, <1>9 DEF IInv

LEMMA OpenFrameKeeps == IInv /\ OpenFrame => IInv'
<1> SUFFICES ASSUME IInv, OpenFrame
             PROVE  IInv'
  OBVIOUS
<1>1. /\ InHeader /\ pc = "encode" /\ in # << >>
      /\ Parsed.header_ready
      /\ Parsed.length <= MaxFrameSize
      /\ ~IsComplete(Parsed)
      /\ response_frame' = Parsed
      /\ recv' = recv + Taken
      /\ response_frame_buf' = PreparedFrame
      /\ UNCHANGED <<stream, upstream_done, status, pc, in, out,
                     response_free, response_busy, trailers_sent, mem,
                     unsent, wire>>
  BY DEF OpenFrame, InHeader
<1>2. CallInv' /\ recv' \in 0..stream.eof
  BY <1>1, HeaderStep, ConsumeKeepsCall
<1>3. ChainsInv' /\ ContentInv' /\ BlocksFit' /\ Made' = Made
  BY <1>1, ChainsUntouched
<1>4. /\ status = "open" /\ ~trailers_sent
      /\ ParserAt(Made + 1)
      /\ \A k \in 1..Made : Legal(stream, k)
  BY <1>1, HeadFacts
<1>5. /\ Parsed \in Parsers
      /\ Parsed.header = Bytes(stream.cuts[Made + 1], Len(Parsed.header))
      /\ Parsed.payload_seen = 0
      /\ recv + Taken = stream.cuts[Made + 1] + Len(Parsed.header)
      /\ Made + 1 \in 1..Messages(stream)
      /\ Len(Parsed.header) = HeaderSize
      /\ Parsed.length = FrameSize(stream, Made + 1) - HeaderSize
  BY <1>1, HeaderStep
<1>6. /\ Parsed.length \in Nat /\ Parsed.length # 0
      /\ HeaderSize \in Nat
      /\ Parsed.header \in Seq(Nat)
  BY <1>1, <1>5, HeaderSizeAssumption DEF Parsers, IsComplete
<1>7. /\ PreparedFrame.data = Parsed.header
      /\ PreparedFrame.cap \in Nat
      /\ PreparedFrame.cap >= HeaderSize + Parsed.length
      /\ PreparedFrame \in [data : Seq(Nat), cap : Nat]
  <2>1. response_frame_buf.cap \in Nat
    BY DEF IInv, TypeOK
  <2>2. HeaderSize + Parsed.length \in Nat
    BY <1>6
  <2>3. /\ Grown(response_frame_buf.cap, HeaderSize + Parsed.length) \in Nat
        /\ Grown(response_frame_buf.cap, HeaderSize + Parsed.length)
             >= HeaderSize + Parsed.length
    BY <2>1, <2>2, GrownHolds
  <2>4. QED
    BY <1>6, <2>3 DEF PreparedFrame
<1>8. TypeOK'
  BY <1>1, <1>2, <1>5, <1>7 DEF IInv, TypeOK
<1>9. ParserInv'
  <2>1. ParserAt(Made + 1)'
    <3>1. /\ Made + 1 \in 1..Len(stream.cuts)
          /\ Made + 1 <= Messages(stream)
          /\ stream.cuts[Made + 1] \in Nat
      <4>1. Made + 1 \in 1..Len(stream.cuts)
        BY <1>4 DEF ParserAt
      <4>2. stream.cuts[Made + 1] \in Nat /\ Messages(stream) \in Nat
        BY <4>1, StreamFacts DEF IInv, TypeOK
      <4>3. QED
        BY <1>5, <4>1, <4>2
    <3>2. PreparedFrame.data
            = Bytes(stream.cuts[Made + 1], HeaderSize + Parsed.payload_seen)
      BY <1>5, <1>6, <1>7
    <3>3. recv + Taken = stream.cuts[Made + 1] + Len(Parsed.header)
                           + Parsed.payload_seen
      BY <1>5, <1>6, <3>1
    <3>4. Parsed.payload_seen < Parsed.length
      BY <1>5, <1>6
    <3>5. HeaderSize + Parsed.length <= PreparedFrame.cap
      BY <1>6, <1>7
    <3>6. QED
      BY <1>1, <1>3, <1>5, <3>1, <3>2, <3>3, <3>4, <3>5 DEF ParserAt
  <2>2. QED
    BY <1>1, <1>3, <1>4, <2>1 DEF ParserInv, Legal
<1>10. CountInv'
  BY <1>1, <1>3, <1>4 DEF IInv, CountInv
<1>11. StorageHolds'
  <2>1. Len(response_frame_buf'.data) <= response_frame_buf'.cap
    BY <1>1, <1>5, <1>6, <1>7
  <2>2. QED
    BY <1>3, <2>1 DEF StorageHolds, BlocksFit
<1>12. RejectsOnlyBadStreams'
  BY <1>1, <1>4 DEF RejectsOnlyBadStreams
<1>13. QED
  BY <1>2, <1>3, <1>8, <1>9, <1>10, <1>11, <1>12 DEF IInv

LEMMA ReadPayloadKeeps == IInv /\ ReadPayload => IInv'
<1> SUFFICES ASSUME IInv, ReadPayload
             PROVE  IInv'
  OBVIOUS
<1>1. /\ InPayload /\ pc = "encode" /\ in # << >>
      /\ ~IsComplete(Parsed)
      /\ response_frame' = Parsed
      /\ recv' = recv + Taken
      /\ response_frame_buf' = [response_frame_buf EXCEPT !.data = Collected]
      /\ UNCHANGED <<stream, upstream_done, status, pc, in, out,
                     response_free, response_busy, trailers_sent, mem,
                     unsent, wire>>
  BY DEF ReadPayload, InPayload
<1>2. CallInv' /\ recv' \in 0..stream.eof
  BY <1>1, PayloadStep, ConsumeKeepsCall
<1>3. ChainsInv' /\ ContentInv' /\ BlocksFit' /\ Made' = Made
  BY <1>1, ChainsUntouched
<1>4. /\ status = "open" /\ ~trailers_sent
      /\ ParserAt(Made + 1)
      /\ \A k \in 1..Made : Legal(stream, k)
  BY <1>1, HeadFacts
<1>5. /\ Made + 1 \in 1..Messages(stream)
      /\ Parsed \in Parsers
      /\ Parsed.header_ready
      /\ Len(Parsed.header) = HeaderSize
      /\ Parsed.length = FrameSize(stream, Made + 1) - HeaderSize
      /\ Parsed.length <= MaxFrameSize
      /\ Parsed.payload_seen <= Parsed.length
      /\ Parsed.header = Bytes(stream.cuts[Made + 1], Len(Parsed.header))
      /\ recv + Taken
           = stream.cuts[Made + 1] + HeaderSize + Parsed.payload_seen
      /\ Collected \in Seq(Nat)
      /\ Len(Collected) = HeaderSize + Parsed.payload_seen
      /\ Collected = Bytes(stream.cuts[Made + 1],
                           HeaderSize + Parsed.payload_seen)
      /\ HeaderSize + Parsed.length <= response_frame_buf.cap
  BY <1>1, PayloadStep
<1>6. /\ Parsed.payload_seen \in Nat /\ Parsed.length \in Nat
      /\ Parsed.payload_seen # Parsed.length
      /\ HeaderSize \in Nat
      /\ response_frame_buf.cap \in Nat
  BY <1>1, <1>5, HeaderSizeAssumption DEF Parsers, IsComplete, IInv, TypeOK
<1>7. /\ response_frame_buf' \in [data : Seq(Nat), cap : Nat]
      /\ response_frame_buf'.data = Collected
      /\ response_frame_buf'.cap = response_frame_buf.cap
  BY <1>1, <1>5 DEF IInv, TypeOK
<1>8. TypeOK'
  BY <1>1, <1>2, <1>5, <1>7 DEF IInv, TypeOK
<1>9. ParserInv'
  <2>1. ParserAt(Made + 1)'
    <3>1. /\ Made + 1 \in 1..Len(stream.cuts)
          /\ Made + 1 <= Messages(stream)
      <4>1. Made + 1 \in 1..Len(stream.cuts)
        BY <1>4 DEF ParserAt
      <4>2. QED
        BY <1>5, <4>1, StreamFacts DEF IInv, TypeOK
    <3>2. Parsed.payload_seen < Parsed.length
      BY <1>5, <1>6
    <3>3. QED
      BY <1>1, <1>3, <1>5, <1>7, <3>1, <3>2 DEF ParserAt
  <2>2. QED
    BY <1>1, <1>3, <1>4, <2>1 DEF ParserInv, Legal
<1>10. CountInv'
  BY <1>1, <1>3, <1>4 DEF IInv, CountInv
<1>11. StorageHolds'
  <2>1. Len(response_frame_buf'.data) <= response_frame_buf'.cap
    BY <1>5, <1>6, <1>7
  <2>2. QED
    BY <1>3, <2>1 DEF StorageHolds, BlocksFit
<1>12. RejectsOnlyBadStreams'
  BY <1>1, <1>4 DEF RejectsOnlyBadStreams
<1>13. QED
  BY <1>2, <1>3, <1>8, <1>9, <1>10, <1>11, <1>12 DEF IInv

(* Both ways of completing a frame: it becomes block Made + 1, and the
   parser stands at the start of the next one. *)
LEMMA FrameClosed ==
  ASSUME IInv, pc = "encode", in # << >>,
         Made + 1 \in 1..Messages(stream), Legal(stream, Made + 1),
         NEW n \in Nat, n <= SrcLen, recv' = recv + n,
         recv + n = stream.cuts[Made + 1] + FrameSize(stream, Made + 1),
         NEW data \in Seq(Nat), EncodeBlock(data, FALSE),
         data = Bytes(stream.cuts[Made + 1], FrameSize(stream, Made + 1)),
         response_frame' = FreshParser,
         response_frame_buf' \in [data : Seq(Nat), cap : Nat],
         response_frame_buf'.data = << >>,
         UNCHANGED <<stream, upstream_done, status, pc, in, response_busy,
                     trailers_sent, unsent, wire>>
  PROVE  IInv'
<1>1. CallInv' /\ recv' \in 0..stream.eof
  BY ConsumeKeepsCall
<1>2. /\ status = "open" /\ ~trailers_sent
      /\ \A k \in 1..Made : Legal(stream, k)
      /\ Made \in Nat
  BY HeadFacts
<1>3. [data |-> data, last_buf |-> FALSE] = Block(stream, Made + 1)
  BY DEF Block
<1>4. ChainsTyped' /\ ChainsInv' /\ ContentInv' /\ BlocksFit'
        /\ Made' = Made + 1
  BY <1>3, EncodeBlockKeeps DEF IInv, StorageHolds, BlocksFit
<1>5. /\ Messages(stream) \in Nat
      /\ Len(stream.cuts) = Messages(stream) + 1
      /\ stream.cuts[(Made + 1) + 1] = recv'
      /\ stream.cuts[(Made + 1) + 1] \in Nat
      /\ (Made + 1) + 1 \in 1..Len(stream.cuts)
  <2>1. stream \in Streams
    BY DEF IInv, TypeOK
  <2>2. /\ Messages(stream) \in Nat
        /\ Len(stream.cuts) = Messages(stream) + 1
    BY <2>1, StreamFacts
  <2>3. (Made + 1) + 1 \in 1..Len(stream.cuts)
    BY <1>2, <2>2
  <2>4. stream.cuts[(Made + 1) + 1] = recv'
    BY <2>1, FrameFacts
  <2>5. stream.cuts[(Made + 1) + 1] \in Nat
    BY <2>1, <2>3, StreamFacts
  <2>6. QED
    BY <2>2, <2>3, <2>4, <2>5
<1>6. FreshParser \in Parsers
  BY DEF FreshParser, Parsers
<1>7. TypeOK'
  <2>1. /\ stream' \in Streams /\ upstream_done' \in BOOLEAN
        /\ trailers_sent' \in BOOLEAN /\ in' \in Seq(NativeBufs)
        /\ status' \in {"open", "rejected", "no_memory", "upstream_failed",
                        "closed", "cancelled"}
        /\ pc' \in {"idle", "encode", "write", "recycle"}
        /\ wire' \in Seq([data : Seq(Nat), last_buf : BOOLEAN])
    BY DEF IInv, TypeOK
  <2>2. recv' \in 0..stream'.eof
    BY <1>1
  <2>3. response_frame' \in Parsers
    BY <1>6
  <2>4. QED
    BY <1>4, <2>1, <2>2, <2>3 DEF TypeOK, ChainsTyped
<1>8. ParserInv'
  <2>1. ParserAt(Made + 1)'
    <3>1. /\ response_frame'.header = << >>
          /\ ~response_frame'.header_ready
          /\ response_frame'.payload_seen = 0
      BY DEF FreshParser
    <3>2. /\ Len(response_frame'.header) = 0
          /\ Bytes(recv', 0) = << >>
      <4>1. Len(response_frame'.header) = 0
        BY <3>1
      <4>2. recv' \in Nat
        BY <1>5
      <4>3. QED
        BY <4>1, <4>2, BytesFacts
    <3>3. 0 < HeaderSize
      BY HeaderSizeAssumption
    <3>4. /\ Made' + 1 \in 1..Len(stream'.cuts)
          /\ stream'.cuts[Made' + 1] = recv'
          /\ recv' = recv' + 0 + 0
      BY <1>4, <1>5
    <3>5. QED
      BY <3>1, <3>2, <3>3, <3>4 DEF ParserAt
  <2>2. ASSUME NEW k \in 1..Made'
        PROVE  Legal(stream', k)
    <3>1. CASE k = Made + 1
      BY <3>1
    <3>2. CASE k # Made + 1
      <4>1. k \in 1..Made
        BY <1>2, <1>4, <3>2
      <4>2. QED
        BY <1>2, <4>1
    <3>3. QED
      BY <3>1, <3>2
  <2>3. QED
    BY <2>1, <2>2 DEF ParserInv, Legal
<1>9. CountInv'
  BY <1>2, <1>4, <1>5 DEF CountInv
<1>10. StorageHolds'
  <2>1. response_frame_buf'.cap \in Nat
    OBVIOUS
  <2>2. Len(response_frame_buf'.data) <= response_frame_buf'.cap
    BY <2>1
  <2>3. QED
    BY <1>4, <2>2 DEF StorageHolds, BlocksFit
<1>11. RejectsOnlyBadStreams'
  BY <1>2 DEF RejectsOnlyBadStreams
<1>12. QED
  BY <1>1, <1>4, <1>7, <1>8, <1>9, <1>10, <1>11 DEF IInv

LEMMA EmptyFrameKeeps == IInv /\ EmptyFrame => IInv'
<1> SUFFICES ASSUME IInv, EmptyFrame
             PROVE  IInv'
  OBVIOUS
<1>1. /\ InHeader /\ pc = "encode" /\ in # << >>
      /\ Parsed.header_ready
      /\ Parsed.length <= MaxFrameSize
      /\ IsComplete(Parsed)
      /\ EncodeBlock(PreparedFrame.data, FALSE)
      /\ response_frame_buf' = [PreparedFrame EXCEPT !.data = << >>]
      /\ response_frame' = FreshParser
      /\ recv' = recv + Taken
      /\ UNCHANGED <<stream, upstream_done, status, pc, in, response_busy,
                     trailers_sent, unsent, wire>>
  BY DEF EmptyFrame, InHeader
<1>2. /\ Taken \in Nat /\ Taken <= SrcLen
      /\ Parsed \in Parsers
      /\ Parsed.header = Bytes(stream.cuts[Made + 1], Len(Parsed.header))
      /\ Parsed.payload_seen = 0
      /\ recv + Taken = stream.cuts[Made + 1] + Len(Parsed.header)
      /\ Made + 1 \in 1..Messages(stream)
      /\ Len(Parsed.header) = HeaderSize
      /\ Parsed.length = FrameSize(stream, Made + 1) - HeaderSize
  BY <1>1, HeaderStep
<1>3. /\ HeaderSize \in Nat
      /\ FrameSize(stream, Made + 1) \in Nat
      /\ FrameSize(stream, Made + 1) = HeaderSize
      /\ Legal(stream, Made + 1)
  <2>1. Parsed.length = 0
    BY <1>1, <1>2 DEF IsComplete
  <2>2. FrameSize(stream, Made + 1) \in Nat
    BY <1>2, FrameFacts DEF IInv, TypeOK
  <2>3. QED
    BY <1>1, <1>2, <2>1, <2>2, HeaderSizeAssumption DEF Legal
<1>4. PreparedFrame.data = Parsed.header /\ Parsed.header \in Seq(Nat)
  BY <1>2 DEF PreparedFrame, Parsers
<1>5. /\ response_frame_buf' \in [data : Seq(Nat), cap : Nat]
      /\ response_frame_buf'.data = << >>
  <2>1. response_frame_buf.cap \in Nat
    BY DEF IInv, TypeOK
  <2>2. HeaderSize + Parsed.length \in Nat
    BY <1>2, <1>3
  <2>3. Grown(response_frame_buf.cap, HeaderSize + Parsed.length) \in Nat
    BY <2>1, <2>2, GrownHolds
  <2>4. /\ response_frame_buf' =
             [data |-> << >>,
              cap |-> Grown(response_frame_buf.cap, HeaderSize + Parsed.length)]
        /\ << >> \in Seq(Nat)
    BY <1>1 DEF PreparedFrame
  <2>5. QED
    BY <2>3, <2>4
<1>6. PreparedFrame.data
        = Bytes(stream.cuts[Made + 1], FrameSize(stream, Made + 1))
  BY <1>2, <1>3, <1>4
<1>7. recv + Taken = stream.cuts[Made + 1] + FrameSize(stream, Made + 1)
  BY <1>2, <1>3
<1>8. QED
  BY <1>1, <1>2, <1>3, <1>4, <1>5, <1>6, <1>7, FrameClosed

LEMMA CloseFrameKeeps == IInv /\ CloseFrame => IInv'
<1> SUFFICES ASSUME IInv, CloseFrame
             PROVE  IInv'
  OBVIOUS
<1>1. /\ InPayload /\ pc = "encode" /\ in # << >>
      /\ IsComplete(Parsed)
      /\ EncodeBlock(Collected, FALSE)
      /\ response_frame_buf' = [response_frame_buf EXCEPT !.data = << >>]
      /\ response_frame' = FreshParser
      /\ recv' = recv + Taken
      /\ UNCHANGED <<stream, upstream_done, status, pc, in, response_busy,
                     trailers_sent, unsent, wire>>
  BY DEF CloseFrame, InPayload
<1>2. /\ Taken \in Nat /\ Taken <= SrcLen
      /\ Made + 1 \in 1..Messages(stream)
      /\ Parsed.length = FrameSize(stream, Made + 1) - HeaderSize
      /\ Parsed.length <= MaxFrameSize
      /\ recv + Taken
           = stream.cuts[Made + 1] + HeaderSize + Parsed.payload_seen
      /\ Collected \in Seq(Nat)
      /\ Collected = Bytes(stream.cuts[Made + 1],
                           HeaderSize + Parsed.payload_seen)
  BY <1>1, PayloadStep
<1>3. /\ stream \in Streams
      /\ Made + 1 \in 1..Len(stream.cuts)
  BY <1>1, HeadFacts DEF IInv, TypeOK, ParserAt
<1>4. /\ stream.cuts[Made + 1] \in Nat
      /\ FrameSize(stream, Made + 1) \in Nat
      /\ HeaderSize \in Nat
  BY <1>2, <1>3, StreamFacts, FrameFacts, HeaderSizeAssumption
<1>5. Parsed.payload_seen = FrameSize(stream, Made + 1) - HeaderSize
  BY <1>1, <1>2 DEF IsComplete
<1>6. HeaderSize + Parsed.payload_seen = FrameSize(stream, Made + 1)
  BY <1>4, <1>5
<1>7. recv + Taken = stream.cuts[Made + 1] + FrameSize(stream, Made + 1)
  BY <1>2, <1>4, <1>5
<1>8. Collected = Bytes(stream.cuts[Made + 1], FrameSize(stream, Made + 1))
  BY <1>2, <1>6
<1>9. Legal(stream, Made + 1)
  BY <1>2 DEF Legal
<1>10. /\ response_frame_buf' \in [data : Seq(Nat), cap : Nat]
       /\ response_frame_buf'.data = << >>
  <2>1. response_frame_buf \in [data : Seq(Nat), cap : Nat]
    BY DEF IInv, TypeOK
  <2>2. << >> \in Seq(Nat)
    OBVIOUS
  <2>3. QED
    BY <1>1, <2>1, <2>2
<1>11. QED
  BY <1>1, <1>2, <1>7, <1>8, <1>9, <1>10, FrameClosed

LEMMA NextBufferKeeps == IInv /\ NextBuffer => IInv'
<1> SUFFICES ASSUME IInv, NextBuffer
             PROVE  IInv'
  OBVIOUS
<1>1. /\ pc = "encode" /\ in # << >>
      /\ in' = Tail(in)
      /\ UNCHANGED <<stream, recv, upstream_done, status, pc, out, mem,
                     unsent, wire>>
      /\ UNCHANGED <<response_frame, response_frame_buf, response_free,
                     response_busy, trailers_sent>>
  BY DEF NextBuffer, ctx
<1>2. ChainsInv' /\ ContentInv' /\ BlocksFit' /\ Made' = Made
  BY <1>1, ChainsUntouched
<1>3. /\ in \in Seq(NativeBufs) /\ Len(in) \in Nat
      /\ in' \in Seq(NativeBufs)
      /\ Len(in') = Len(in) - 1
      /\ \A i \in 1..(Len(in) - 1) : in'[i] = in[i + 1]
  BY <1>1, TailFacts DEF IInv, TypeOK
<1>4. CallInv'
  <2>1. ASSUME NEW i \in 1..Len(in')
        PROVE  /\ recv <= in'[i].end /\ in'[i].end <= stream.eof
               /\ \A j \in 1..Len(in') : i <= j => in'[i].end <= in'[j].end
               /\ in'[i].last_buf => /\ i = Len(in')
                                     /\ stream.clean
                                     /\ in'[i].end = stream.eof
    <3>1. \A j \in 1..Len(in') : j + 1 \in 1..Len(in) /\ in'[j] = in[j + 1]
      BY <1>3
    <3>2. i + 1 \in 1..Len(in) /\ in'[i] = in[i + 1]
      BY <3>1
    <3>3. /\ recv <= in[i + 1].end /\ in[i + 1].end <= stream.eof
          /\ \A j \in 1..Len(in) : i + 1 <= j => in[i + 1].end <= in[j].end
          /\ in[i + 1].last_buf => /\ i + 1 = Len(in)
                                   /\ stream.clean
                                   /\ in[i + 1].end = stream.eof
      BY <1>1, <3>2 DEF IInv, CallInv
    <3>4. ASSUME NEW j \in 1..Len(in'), i <= j
          PROVE  in'[i].end <= in'[j].end
      <4>1. j + 1 \in 1..Len(in) /\ in'[j] = in[j + 1] /\ i + 1 <= j + 1
        BY <3>1, <3>4
      <4>2. QED
        BY <3>2, <3>3, <4>1
    <3>5. i + 1 = Len(in) => i = Len(in')
      BY <1>3
    <3>6. QED
      BY <3>2, <3>3, <3>4, <3>5
  <2>2. QED
    BY <1>1, <2>1 DEF IInv, CallInv
<1>5. TypeOK'
  BY <1>1, <1>3 DEF IInv, TypeOK
<1>6. /\ status = "open" /\ ~trailers_sent
      /\ ParserAt(Made + 1)
      /\ \A k \in 1..Made : Legal(stream, k)
  BY <1>1, HeadFacts
<1>7. ParserInv'
  BY <1>1, <1>2, <1>6 DEF ParserInv, ParserAt, Legal
<1>8. CountInv'
  BY <1>1, <1>2, <1>6 DEF IInv, CountInv
<1>9. StorageHolds' /\ RejectsOnlyBadStreams'
  BY <1>1, <1>6 DEF IInv, StorageHolds, RejectsOnlyBadStreams
<1>10. QED
  BY <1>2, <1>4, <1>5, <1>7, <1>8, <1>9 DEF IInv

-----------------------------------------------------------------------------
(* The end of the stream, and the ends of the request.                     *)

(* Whatever ends the request only forgets what the call had encoded. *)
LEMMA TerminationKeeps ==
  ASSUME IInv, RejectsOnlyBadStreams',
         status' \in {"rejected", "no_memory", "upstream_failed", "closed",
                      "cancelled"},
         pc' = "idle", out' = << >>,
         recv' \in 0..stream.eof, response_frame' \in Parsers,
         UNCHANGED <<stream, upstream_done, in, response_frame_buf,
                     response_free, response_busy, trailers_sent, mem,
                     unsent, wire>>
  PROVE  IInv'
<1>1. TypeOK'
  <2>1. << >> \in Seq(1..Len(mem))
    OBVIOUS
  <2>2. QED
    BY <2>1 DEF IInv, TypeOK
<1>2. CallInv' /\ ParserInv'
  BY DEF CallInv, ParserInv
<1>3. CountInv'
  <2>1. /\ Len(wire) \in Nat /\ Len(unsent) \in Nat /\ Len(out) \in Nat
        /\ stream \in Streams
    BY DEF IInv, TypeOK
  <2>2. Messages(stream) \in Nat
    BY <2>1, StreamFacts
  <2>3. Made' = Len(wire) + Len(unsent)
    BY DEF Made
  <2>4. Made \in Nat /\ Made' <= Made
    <3>1. CASE pc = "encode"
      BY <2>1, <2>3, <3>1 DEF Made
    <3>2. CASE pc # "encode"
      BY <2>1, <2>3, <3>2 DEF Made
    <3>3. QED
      BY <3>1, <3>2
  <2>5. /\ Made <= Messages(stream) + 1
        /\ Made = Messages(stream) + 1 => Complete(stream)
    BY DEF IInv, CountInv
  <2>6. /\ Made' <= Messages(stream) + 1
        /\ Made' = Messages(stream) + 1 => Complete(stream)
    BY <2>1, <2>2, <2>3, <2>4, <2>5
  <2>7. QED
    BY <2>6 DEF CountInv, Complete, Messages, LastCut, TrailersFit, Legal,
                FrameSize
<1>4. ChainsInv'
  <2>1. Len(out') = 0
    OBVIOUS
  <2>2. /\ Injective(out')
        /\ Disjoint(response_free, out')
        /\ Disjoint(response_busy, out')
    BY <2>1 DEF Injective, Disjoint
  <2>3. QED
    BY <2>2 DEF IInv, ChainsInv
<1>5. ContentInv'
  BY DEF IInv, ContentInv
<1>6. StorageHolds'
  BY DEF IInv, StorageHolds
<1>7. QED
  BY <1>1, <1>2, <1>3, <1>4, <1>5, <1>6 DEF IInv

LEMMA RejectFrameKeeps == IInv /\ RejectFrame => IInv'
<1> SUFFICES ASSUME IInv, RejectFrame
             PROVE  IInv'
  OBVIOUS
<1>1. /\ InHeader /\ pc = "encode" /\ in # << >>
      /\ Parsed.header_ready
      /\ Parsed.length > MaxFrameSize
      /\ response_frame' = Parsed
      /\ recv' = recv + Taken
      /\ status' = "rejected" /\ pc' = "idle" /\ out' = << >>
      /\ UNCHANGED <<stream, upstream_done, in, response_frame_buf,
                     response_free, response_busy, trailers_sent, mem,
                     unsent, wire>>
  BY DEF RejectFrame, InHeader, Terminate
<1>2. /\ Taken \in Nat /\ Taken <= SrcLen
      /\ Parsed \in Parsers
      /\ Made + 1 \in 1..Messages(stream)
      /\ Parsed.length = FrameSize(stream, Made + 1) - HeaderSize
  BY <1>1, HeaderStep
<1>3. recv' \in 0..stream.eof
  <2>1. /\ recv \in Nat /\ SrcLen \in Nat
        /\ recv + SrcLen <= stream.eof
        /\ stream.eof \in Nat
    BY <1>1, HeadFacts, StreamFacts DEF IInv, TypeOK
  <2>2. QED
    BY <1>1, <1>2, <2>1
<1>4. ~Legal(stream, Made + 1)
  <2>1. FrameSize(stream, Made + 1) - HeaderSize \in Nat
    BY <1>2, FrameFacts DEF IInv, TypeOK
  <2>2. MaxFrameSize \in Nat
    BY TextAssumption
  <2>3. QED
    BY <1>1, <1>2, <2>1, <2>2 DEF Legal
<1>5. RejectsOnlyBadStreams'
  BY <1>1, <1>2, <1>4 DEF RejectsOnlyBadStreams, Legal, Messages, FrameSize
<1>6. QED
  BY <1>1, <1>2, <1>3, <1>5, TerminationKeeps

(* At the end of a body the parser is between frames exactly if the last
   frame arrived whole. *)
LEMMA EndFacts ==
  ASSUME IInv, AtLastBuf
  PROVE  /\ stream.clean
         /\ MidFrame => stream.eof # LastCut(stream)
         /\ ~MidFrame => /\ stream.eof = LastCut(stream)
                         /\ Made = Messages(stream)
<1> DEFINE p == response_frame
           k == Made + 1
           start == stream.cuts[k]
           M == Messages(stream)
           len == Len(p.header)
<1>1. /\ status = "open" /\ ~trailers_sent
      /\ recv \in Nat /\ SrcLen = 0
      /\ recv + SrcLen = Head(in).end
      /\ stream.clean /\ Head(in).end = stream.eof
      /\ ParserAt(k) /\ k \in Nat
      /\ stream \in Streams /\ p \in Parsers
  BY HeadFacts DEF AtLastBuf, IInv, TypeOK
<1>2. recv = stream.eof
  BY <1>1
<1>3. /\ k \in 1..Len(stream.cuts)
      /\ recv = start + len + p.payload_seen
      /\ p.header_ready => /\ k <= M
                           /\ len = HeaderSize
                           /\ p.length = FrameSize(stream, k) - HeaderSize
                           /\ p.payload_seen < p.length
      /\ ~p.header_ready => len < HeaderSize /\ p.payload_seen = 0
  BY <1>1 DEF ParserAt
<1>4. /\ p.header \in Seq(Nat) /\ len \in Nat
      /\ p.length \in Nat /\ p.payload_seen \in Nat
  BY <1>1 DEF Parsers
<1>5. /\ M \in Nat
      /\ Len(stream.cuts) = M + 1
      /\ LastCut(stream) = stream.cuts[M + 1]
      /\ stream.eof <= LastCut(stream)
      /\ stream.eof \in Nat
      /\ start \in Nat
  BY <1>1, <1>3, StreamFacts
<1>6. HeaderSize \in Nat /\ HeaderSize # 0
  BY HeaderSizeAssumption
<1>7. k <= M => /\ k + 1 \in 1..Len(stream.cuts)
                /\ start < stream.eof
                /\ start + HeaderSize <= stream.cuts[k + 1]
                /\ stream.cuts[k + 1] = start + FrameSize(stream, k)
                /\ stream.cuts[k + 1] \in Nat
                /\ FrameSize(stream, k) \in Nat
                /\ stream.cuts[k + 1] <= LastCut(stream)
  <2>1. SUFFICES ASSUME k <= M
                 PROVE  /\ k + 1 \in 1..Len(stream.cuts)
                        /\ start < stream.eof
                        /\ start + HeaderSize <= stream.cuts[k + 1]
                        /\ stream.cuts[k + 1] = start + FrameSize(stream, k)
                        /\ stream.cuts[k + 1] \in Nat
                        /\ FrameSize(stream, k) \in Nat
                        /\ stream.cuts[k + 1] <= LastCut(stream)
    OBVIOUS
  <2>2. k \in 1..M /\ k + 1 \in 1..Len(stream.cuts) /\ k < k + 1
    BY <1>3, <1>5, <2>1
  <2>3. /\ start < stream.eof
        /\ stream.cuts[k + 1] \in Nat
        /\ FrameSize(stream, k) \in Nat
        /\ stream.cuts[k + 1] = start + FrameSize(stream, k)
        /\ start + HeaderSize <= stream.cuts[k + 1]
    BY <1>1, <1>3, <2>2, StreamFacts, FrameFacts
  <2>4. stream.cuts[k + 1] <= LastCut(stream)
    <3>1. CASE k + 1 = M + 1
      BY <1>5, <2>3, <3>1
    <3>2. CASE k + 1 < M + 1
      <4>1. M + 1 \in 1..Len(stream.cuts)
        BY <1>5
      <4>2. stream.cuts[k + 1] + HeaderSize <= stream.cuts[M + 1]
        BY <1>1, <2>2, <3>2, <4>1, StreamFacts
      <4>3. stream.cuts[M + 1] \in Nat
        BY <1>1, <4>1, StreamFacts
      <4>4. QED
        BY <1>5, <1>6, <2>3, <4>2, <4>3
    <3>3. QED
      BY <1>5, <2>2, <3>1, <3>2
  <2>5. QED
    BY <2>2, <2>3, <2>4
<1>8. ASSUME MidFrame
      PROVE  stream.eof # LastCut(stream)
  <2>1. CASE p.header_ready
    <3>1. /\ k <= M /\ len = HeaderSize
          /\ p.length = FrameSize(stream, k) - HeaderSize
          /\ p.payload_seen < p.length
          /\ recv = start + len + p.payload_seen
      BY <1>3, <2>1
    <3>2. /\ stream.cuts[k + 1] = start + FrameSize(stream, k)
          /\ stream.cuts[k + 1] \in Nat
          /\ FrameSize(stream, k) \in Nat
          /\ stream.cuts[k + 1] <= LastCut(stream)
      BY <1>7, <3>1
    <3>3. LastCut(stream) \in Nat
      BY <1>1, <1>5, StreamFacts
    <3> HIDE DEF p, start, len, k, M
    <3>4. recv < stream.cuts[k + 1]
      BY <1>4, <1>5, <1>6, <3>1, <3>2
    <3>5. QED
      BY <1>1, <1>2, <3>2, <3>3, <3>4
  <2>2. CASE ~p.header_ready
    <3>1. len # 0
      <4>1. p.header # << >>
        BY <1>8, <2>2 DEF MidFrame
      <4>2. QED
        BY <1>4, <4>1
    <3>2. CASE k <= M
      <4>1. /\ start + HeaderSize <= stream.cuts[k + 1]
            /\ stream.cuts[k + 1] \in Nat
            /\ stream.cuts[k + 1] <= LastCut(stream)
        BY <1>7, <3>2
      <4>2. /\ len < HeaderSize /\ p.payload_seen = 0
            /\ recv = start + len + p.payload_seen
        BY <1>3, <2>2
      <4>3. LastCut(stream) \in Nat
        BY <1>1, <1>5, StreamFacts
      <4> HIDE DEF p, start, len, k, M
      <4>4. recv < stream.cuts[k + 1]
        BY <1>4, <1>5, <1>6, <4>1, <4>2
      <4>5. QED
        BY <1>1, <1>2, <4>1, <4>3, <4>4
    <3>3. CASE k = M + 1
      BY <1>2, <1>3, <1>4, <1>5, <2>2, <3>1, <3>3
    <3>4. QED
      BY <1>3, <1>5, <3>2, <3>3
  <2>3. QED
    BY <2>1, <2>2
<1>9. ASSUME ~MidFrame
      PROVE  stream.eof = LastCut(stream) /\ Made = M
  <2>1. ~p.header_ready /\ len = 0
    BY <1>9 DEF MidFrame
  <2>2. recv = start
    BY <1>3, <1>5, <2>1
  <2>3. k = M + 1
    BY <1>2, <1>3, <1>5, <1>7, <2>2
  <2>4. Made \in Nat
    BY MadeNat DEF IInv
  <2>5. QED
    BY <1>2, <1>5, <2>2, <2>3, <2>4
<1>10. QED
  BY <1>1, <1>8, <1>9

LEMMA RejectEndKeeps == IInv /\ RejectEnd => IInv'
<1> SUFFICES ASSUME IInv, RejectEnd
             PROVE  IInv'
  OBVIOUS
<1>1. /\ AtLastBuf
      /\ MidFrame \/ ~TrailersFit(stream)
      /\ status' = "rejected" /\ pc' = "idle" /\ out' = << >>
      /\ UNCHANGED <<stream, recv, upstream_done, in, mem, unsent, wire>>
      /\ UNCHANGED <<response_frame, response_frame_buf, response_free,
                     response_busy, trailers_sent>>
  BY DEF RejectEnd, Terminate, ctx
<1>2. /\ stream.clean
      /\ MidFrame => stream.eof # LastCut(stream)
  BY <1>1, EndFacts
<1>3. RejectsOnlyBadStreams'
  BY <1>1, <1>2 DEF RejectsOnlyBadStreams, LastCut, TrailersFit
<1>4. QED
  BY <1>1, <1>3, TerminationKeeps DEF IInv, TypeOK

LEMMA OtherEndsKeep ==
  IInv /\ (AllocationFails \/ UpstreamFails \/ Close \/ Cancel) => IInv'
<1> SUFFICES ASSUME IInv, AllocationFails \/ UpstreamFails \/ Close \/ Cancel
             PROVE  IInv'
  OBVIOUS
<1>1. pc = "idle" => out = << >>
  BY DEF IInv, ChainsInv
<1>2. /\ status' \in {"no_memory", "upstream_failed", "closed", "cancelled"}
      /\ pc' = "idle" /\ out' = << >>
      /\ UNCHANGED <<stream, recv, upstream_done, in, mem, unsent, wire>>
      /\ UNCHANGED <<response_frame, response_frame_buf, response_free,
                     response_busy, trailers_sent>>
  BY <1>1 DEF AllocationFails, UpstreamFails, Close, Cancel, Terminate, ctx
<1>3. RejectsOnlyBadStreams'
  BY <1>2 DEF RejectsOnlyBadStreams
<1>4. QED
  BY <1>2, <1>3, TerminationKeeps DEF IInv, TypeOK

LEMMA EncodeTrailersKeeps == IInv /\ EncodeTrailers => IInv'
<1> SUFFICES ASSUME IInv, EncodeTrailers
             PROVE  IInv'
  OBVIOUS
<1>1. /\ AtLastBuf /\ pc = "encode" /\ in # << >> /\ Head(in).last_buf
      /\ ~MidFrame
      /\ TrailersFit(stream)
      /\ EncodeBlock(TrailerFrame(stream), TRUE)
      /\ trailers_sent' = TRUE
      /\ in' = Tail(in)
      /\ UNCHANGED <<stream, recv, upstream_done, status, pc,
                     response_frame, response_frame_buf, response_busy,
                     unsent, wire>>
  BY DEF EncodeTrailers, AtLastBuf
<1>2. /\ stream.clean
      /\ stream.eof = LastCut(stream)
      /\ Made = Messages(stream)
  BY <1>1, EndFacts
<1>3. /\ status = "open"
      /\ Len(in) = 1
      /\ \A k \in 1..Made : Legal(stream, k)
  BY <1>1, HeadFacts
<1>4. Messages(stream) \in Nat /\ LastCut(stream) \in Nat
        /\ stream.trailer \in Nat
  <2>1. stream \in Streams
    BY DEF IInv, TypeOK
  <2>2. /\ Messages(stream) \in Nat /\ stream.trailer \in Nat
        /\ Messages(stream) + 1 \in 1..Len(stream.cuts)
        /\ LastCut(stream) = stream.cuts[Messages(stream) + 1]
    BY <2>1, StreamFacts
  <2>3. QED
    BY <2>1, <2>2, StreamFacts
<1>5. Complete(stream)
  BY <1>1, <1>2, <1>3 DEF Complete
<1>6. TrailerFrame(stream) \in Seq(Nat)
  <2>1. HeaderSize + stream.trailer \in Nat
    BY <1>4, HeaderSizeAssumption
  <2>2. QED
    BY <1>4, <2>1, BytesFacts DEF TrailerFrame
<1>7. [data |-> TrailerFrame(stream), last_buf |-> TRUE]
        = Block(stream, Made + 1)
  <2>1. ~ (Made + 1 <= Messages(stream))
    BY <1>2, <1>4
  <2>2. QED
    BY <2>1 DEF Block
<1>8. ChainsTyped' /\ ChainsInv' /\ ContentInv' /\ BlocksFit'
        /\ Made' = Made + 1
  BY <1>1, <1>3, <1>6, <1>7, EncodeBlockKeeps DEF IInv, StorageHolds, BlocksFit
<1>9. in' = << >> /\ in' \in Seq(NativeBufs) /\ Len(in') = 0
  <2>1. in \in Seq(NativeBufs)
    BY DEF IInv, TypeOK
  <2>2. in' \in Seq(NativeBufs) /\ Len(in') = 0
    BY <1>1, <1>3, <2>1, TailFacts
  <2>3. QED
    BY <2>2
<1>10. TypeOK'
  <2>1. /\ stream' \in Streams /\ recv' \in 0..stream'.eof
        /\ upstream_done' \in BOOLEAN
        /\ status' \in {"open", "rejected", "no_memory", "upstream_failed",
                        "closed", "cancelled"}
        /\ pc' \in {"idle", "encode", "write", "recycle"}
        /\ response_frame' \in Parsers
        /\ response_frame_buf' \in [data : Seq(Nat), cap : Nat]
        /\ wire' \in Seq([data : Seq(Nat), last_buf : BOOLEAN])
    BY <1>1 DEF IInv, TypeOK
  <2>2. trailers_sent' \in BOOLEAN /\ in' \in Seq(NativeBufs)
    BY <1>1, <1>9
  <2>3. /\ mem' \in Seq(Buffers)
        /\ out' \in Seq(1..Len(mem'))
        /\ response_free' \in Seq(1..Len(mem'))
        /\ response_busy' \in Seq(1..Len(mem'))
        /\ unsent' \in Seq(1..Len(mem'))
    BY <1>8 DEF ChainsTyped
  <2>4. QED
    BY <2>1, <2>2, <2>3, Zenon DEF TypeOK
<1>11. CallInv' /\ ParserInv'
  <2>1. \A i \in 1..Len(in') : FALSE
    BY <1>9
  <2>2. trailers_sent' /\ status' = "open"
    BY <1>1, <1>3
  <2>3. QED
    BY <2>1, <2>2 DEF CallInv, ParserInv
<1>12. CountInv'
  <2>1. Made' = Messages(stream) + 1
    BY <1>2, <1>8
  <2>2. QED
    BY <1>1, <1>4, <1>5, <1>9, <2>1
       DEF CountInv, Complete, Messages, LastCut, TrailersFit, Legal,
           FrameSize
<1>13. StorageHolds' /\ RejectsOnlyBadStreams'
  BY <1>1, <1>3, <1>8 DEF IInv, StorageHolds, BlocksFit, RejectsOnlyBadStreams
<1>14. QED
  BY <1>8, <1>10, <1>11, <1>12, <1>13 DEF IInv

-----------------------------------------------------------------------------
(* Between the filter and the client.                                      *)

LEMMA BodyFilterKeeps ==
  ASSUME IInv, NEW c \in Chains, BodyFilter(c)
  PROVE  IInv'
<1>1. /\ pc = "idle" /\ status = "open" /\ ~trailers_sent
      /\ in' = c /\ out' = << >>
      /\ upstream_done' = c[Len(c)].last_buf
      /\ pc' = "encode"
      /\ UNCHANGED <<stream, recv, status, mem, unsent, wire>>
      /\ UNCHANGED <<response_frame, response_frame_buf, response_free,
                     response_busy, trailers_sent>>
  BY DEF BodyFilter, ctx
<1>2. PICK m \in 1..MaxBufs :
        c \in [1..m -> [end : recv..stream.eof, last_buf : BOOLEAN]]
  BY DEF Chains
<1>3. /\ MaxBufs \in Nat /\ m \in Nat /\ m # 0
      /\ recv \in Nat /\ stream.eof \in Nat
  BY TextAssumption, StreamFacts DEF IInv, TypeOK
<1>4. /\ Len(c) = m
      /\ \A i \in 1..m : /\ c[i].end \in recv..stream.eof
                         /\ c[i].last_buf \in BOOLEAN
                         /\ c[i] \in NativeBufs
  <2>1. Len(c) = m
    BY <1>2, <1>3
  <2>2. \A i \in 1..m : c[i] \in [end : recv..stream.eof, last_buf : BOOLEAN]
    BY <1>2
  <2>3. QED
    BY <1>3, <2>1, <2>2 DEF NativeBufs
<1>5. c \in Seq(NativeBufs)
  BY <1>2, <1>3, <1>4
<1>6. /\ \A i, j \in 1..Len(c) :
           i < j => c[i].end <= c[j].end /\ ~c[i].last_buf
      /\ c[Len(c)].last_buf => stream.clean /\ c[Len(c)].end = stream.eof
  BY DEF Chains
<1>7. CallInv'
  <2>1. ASSUME NEW i \in 1..Len(c)
        PROVE  /\ recv <= c[i].end /\ c[i].end <= stream.eof
               /\ \A j \in 1..Len(c) : i <= j => c[i].end <= c[j].end
               /\ c[i].last_buf => /\ i = Len(c)
                                   /\ stream.clean
                                   /\ c[i].end = stream.eof
    <3>1. /\ c[i].end \in Nat /\ recv <= c[i].end /\ c[i].end <= stream.eof
      BY <1>3, <1>4
    <3>2. \A j \in 1..Len(c) : i <= j => c[i].end <= c[j].end
      BY <1>3, <1>4, <1>6, <3>1
    <3>3. c[i].last_buf => i = Len(c)
      BY <1>3, <1>4, <1>6
    <3>4. QED
      BY <1>6, <3>1, <3>2, <3>3
  <2>2. QED
    BY <1>1, <2>1 DEF CallInv
<1>8. TypeOK'
  <2>1. upstream_done' \in BOOLEAN
    BY <1>1, <1>3, <1>4
  <2>2. << >> \in Seq(1..Len(mem))
    OBVIOUS
  <2>3. QED
    BY <1>1, <1>5, <2>1, <2>2 DEF IInv, TypeOK
<1>9. Made' = Made
  BY <1>1 DEF Made, IInv, TypeOK
<1>10. ParserInv' /\ CountInv'
  BY <1>1, <1>9 DEF IInv, ParserInv, ParserAt, CountInv, Legal, Complete,
                    Messages, LastCut, TrailersFit, FrameSize
<1>11. ChainsInv' /\ ContentInv'
  <2>1. Len(out') = 0 /\ out' = out
    BY <1>1 DEF IInv, ChainsInv
  <2>2. Disjoint(unsent, out')
    BY <2>1 DEF Disjoint
  <2>3. QED
    BY <1>1, <2>1, <2>2 DEF IInv, ChainsInv, ContentInv
<1>12. StorageHolds' /\ RejectsOnlyBadStreams'
  BY <1>1 DEF IInv, StorageHolds, RejectsOnlyBadStreams
<1>13. QED
  BY <1>7, <1>8, <1>10, <1>11, <1>12 DEF IInv

LEMMA EndOfChainKeeps == IInv /\ EndOfChain => IInv'
<1> SUFFICES ASSUME IInv, EndOfChain
             PROVE  IInv'
  OBVIOUS
<1>1. /\ pc = "encode" /\ in = << >>
      /\ unsent' = unsent \o out
      /\ pc' = IF out = << >> THEN "recycle" ELSE "write"
      /\ pc' \in {"write", "recycle"}
      /\ UNCHANGED <<stream, recv, upstream_done, status, in, out, mem, wire>>
      /\ UNCHANGED <<response_frame, response_frame_buf, response_free,
                     response_busy, trailers_sent>>
  BY DEF EndOfChain, ctx
<1>2. /\ unsent \in Seq(1..Len(mem)) /\ out \in Seq(1..Len(mem))
      /\ response_free \in Seq(1..Len(mem))
      /\ Len(unsent) \in Nat /\ Len(out) \in Nat /\ Len(wire) \in Nat
  BY DEF IInv, TypeOK
<1>3. /\ unsent' \in Seq(1..Len(mem))
      /\ Len(unsent') = Len(unsent) + Len(out)
      /\ \A i \in 1..Len(unsent) : unsent'[i] = unsent[i]
      /\ \A i \in 1..Len(out) : unsent'[Len(unsent) + i] = out[i]
  BY <1>1, <1>2, ConcatFacts
<1>4. Made' = Made
  BY <1>1, <1>2, <1>3 DEF Made
<1>5. TypeOK'
  BY <1>1, <1>3 DEF IInv, TypeOK
<1>6. status = "open" /\ CallInv'
  BY <1>1 DEF IInv, CallInv
<1>7. ParserInv' /\ CountInv'
  BY <1>1, <1>4 DEF IInv, ParserInv, ParserAt, CountInv, Legal, Complete,
                    Messages, LastCut, TrailersFit, FrameSize
<1>8. ChainsInv'
  <2>1. Injective(unsent') /\ Disjoint(response_free, unsent')
    BY <1>1, <1>2, InjectiveConcat, DisjointConcat DEF IInv, ChainsInv
  <2>2. QED
    BY <1>1, <2>1 DEF IInv, ChainsInv
<1>9. ContentInv'
  <2>1. ASSUME NEW i \in 1..Len(unsent')
        PROVE  Content(mem[unsent'[i]]) = Block(stream, Len(wire) + i)
    <3>1. CASE i \in 1..Len(unsent)
      BY <1>3, <3>1 DEF IInv, ContentInv
    <3>2. CASE i \notin 1..Len(unsent)
      <4>1. PICK j \in 1..Len(out) : i = Len(unsent) + j
        <5>1. i - Len(unsent) \in 1..Len(out)
          BY <1>2, <1>3, <3>2
        <5>2. i = Len(unsent) + (i - Len(unsent))
          BY <1>2
        <5>3. QED
          BY <5>1, <5>2
      <4>2. Content(mem[out[j]]) = Block(stream, Len(wire) + Len(unsent) + j)
        BY <1>1 DEF IInv, ContentInv
      <4>3. Len(wire) + Len(unsent) + j = Len(wire) + i
        BY <1>2, <4>1
      <4>4. QED
        BY <1>3, <4>1, <4>2, <4>3
    <3>3. QED
      BY <3>1, <3>2
  <2>2. QED
    BY <1>1, <2>1 DEF IInv, ContentInv
<1>10. StorageHolds' /\ RejectsOnlyBadStreams'
  BY <1>1, <1>6 DEF IInv, StorageHolds, RejectsOnlyBadStreams
<1>11. QED
  BY <1>5, <1>6, <1>7, <1>8, <1>9, <1>10 DEF IInv

(* No block is empty, so a buffer that waits in r->out never looks sent. *)
LEMMA BlockNotEmpty ==
  ASSUME stream \in Streams, NEW k \in 1..(Messages(stream) + 1)
  PROVE  Block(stream, k).data # << >>
<1>1. /\ Messages(stream) \in Nat
      /\ stream.trailer \in Nat
      /\ k \in 1..Len(stream.cuts)
      /\ stream.cuts[k] \in Nat
      /\ HeaderSize \in Nat /\ HeaderSize # 0
  BY StreamFacts, HeaderSizeAssumption
<1>2. CASE k <= Messages(stream)
  <2>1. k \in 1..Messages(stream)
    BY <1>1, <1>2
  <2>2. /\ FrameSize(stream, k) \in Nat
        /\ FrameSize(stream, k) >= HeaderSize
    BY <2>1, FrameFacts
  <2>3. Len(Bytes(stream.cuts[k], FrameSize(stream, k))) # 0
    <3>1. Len(Bytes(stream.cuts[k], FrameSize(stream, k)))
            = FrameSize(stream, k)
      BY <1>1, <2>2, BytesFacts
    <3>2. QED
      BY <1>1, <2>2, <3>1
  <2>4. Block(stream, k).data = Bytes(stream.cuts[k], FrameSize(stream, k))
    BY <1>2 DEF Block
  <2>5. QED
    BY <2>3, <2>4
<1>3. CASE k = Messages(stream) + 1
  <2>1. LastCut(stream) \in Nat
    BY <1>1, <1>3, StreamFacts
  <2>2. HeaderSize + stream.trailer \in Nat /\ HeaderSize + stream.trailer # 0
    BY <1>1
  <2>3. Len(TrailerFrame(stream)) # 0
    BY <2>1, <2>2, BytesFacts DEF TrailerFrame
  <2>4. ~ (k <= Messages(stream))
    BY <1>1, <1>3
  <2>5. Block(stream, k).data = TrailerFrame(stream)
    BY <2>4 DEF Block
  <2>6. QED
    BY <2>3, <2>5
<1>4. QED
  BY <1>1, <1>2, <1>3

LEMMA SendBlockKeeps == IInv /\ SendBlock => IInv'
<1> SUFFICES ASSUME IInv, SendBlock
             PROVE  IInv'
  OBVIOUS
<1> DEFINE id == Head(unsent)
           b  == mem[id]
           sent == [b EXCEPT !.data = << >>]
<1>1. /\ pc \in {"idle", "write"}
      /\ unsent # << >>
      /\ wire' = Append(wire, [data |-> b.data, last_buf |-> b.last_buf])
      /\ mem' = [mem EXCEPT ![id] = sent]
      /\ unsent' = Tail(unsent)
      /\ UNCHANGED <<stream, recv, upstream_done, status, pc, in, out>>
      /\ UNCHANGED <<response_frame, response_frame_buf, response_free,
                     response_busy, trailers_sent>>
  BY DEF SendBlock, ctx
<1>2. /\ mem \in Seq(Buffers)
      /\ unsent \in Seq(1..Len(mem))
      /\ response_free \in Seq(1..Len(mem))
      /\ wire \in Seq([data : Seq(Nat), last_buf : BOOLEAN])
      /\ Len(wire) \in Nat /\ Len(unsent) \in Nat
      /\ stream \in Streams
  BY DEF IInv, TypeOK
<1>3. /\ id = unsent[1]
      /\ id \in 1..Len(mem)
      /\ 1 \in 1..Len(unsent)
      /\ unsent' \in Seq(1..Len(mem))
      /\ Len(unsent') = Len(unsent) - 1
      /\ \A i \in 1..(Len(unsent) - 1) : unsent'[i] = unsent[i + 1]
  BY <1>1, <1>2, TailFacts
<1>4. /\ Injective(unsent') /\ ~Holds(unsent', id)
      /\ Disjoint(response_free, unsent')
  BY <1>1, <1>2, InjectiveTail, DisjointTail DEF IInv, ChainsInv
<1> HIDE DEF id
<1>5. b \in Buffers
  BY <1>2, <1>3
<1>6. /\ sent \in Buffers /\ sent.data = << >> /\ sent.cap = b.cap
      /\ b.cap \in Nat
      /\ Content(b) \in [data : Seq(Nat), last_buf : BOOLEAN]
  <2>1. << >> \in Seq(Nat)
    OBVIOUS
  <2>2. QED
    BY <1>5, <2>1 DEF Buffers, Content
<1>7. wire' = Append(wire, Content(b))
  BY <1>1 DEF Content
<1> HIDE DEF b, sent
<1>8. /\ mem' \in Seq(Buffers)
      /\ Len(mem') = Len(mem)
      /\ mem'[id] = sent
      /\ \A j \in 1..Len(mem) : j # id => mem'[j] = mem[j]
  BY <1>1, <1>2, <1>3, <1>6, ExceptSeq
<1>9. /\ wire' \in Seq([data : Seq(Nat), last_buf : BOOLEAN])
      /\ Len(wire') = Len(wire) + 1
      /\ wire'[Len(wire) + 1] = Content(b)
      /\ \A i \in 1..Len(wire) : wire'[i] = wire[i]
  BY <1>2, <1>6, <1>7, AppendProperties
<1>10. Made' = Made
  <2>1. /\ Made = Len(wire) + Len(unsent)
        /\ Made' = Len(wire') + Len(unsent')
    <3>1. pc # "encode" /\ pc' # "encode"
      BY <1>1
    <3>2. QED
      BY <1>2, <1>3, <1>9, <3>1 DEF Made
  <2>2. QED
    BY <1>2, <1>3, <1>9, <2>1
<1>11. TypeOK'
  BY <1>1, <1>3, <1>8, <1>9 DEF IInv, TypeOK
<1>12. CallInv'
  BY <1>1 DEF IInv, CallInv
<1>13. ParserInv' /\ CountInv'
  BY <1>1, <1>10 DEF IInv, ParserInv, ParserAt, CountInv, Legal, Complete,
                     Messages, LastCut, TrailersFit, FrameSize
<1>14. ChainsInv'
  BY <1>1, <1>4, <1>8 DEF IInv, ChainsInv
<1>15. ContentInv'
  <2>1. Content(b) = Block(stream, Len(wire) + 1)
    BY <1>3 DEF IInv, ContentInv, b
  <2>2. ASSUME NEW i \in 1..Len(wire')
        PROVE  wire'[i] = Block(stream, i)
    <3>1. CASE i \in 1..Len(wire)
      BY <1>9, <3>1 DEF IInv, ContentInv
    <3>2. CASE i = Len(wire) + 1
      BY <1>9, <2>1, <3>2
    <3>3. QED
      BY <1>2, <1>9, <3>1, <3>2
  <2>3. ASSUME NEW i \in 1..Len(unsent')
        PROVE  Content(mem'[unsent'[i]]) = Block(stream, Len(wire') + i)
    <3>1. /\ i \in 1..(Len(unsent) - 1)
          /\ i + 1 \in 1..Len(unsent)
          /\ unsent'[i] = unsent[i + 1]
          /\ unsent'[i] \in 1..Len(mem)
          /\ Len(wire') + i = Len(wire) + (i + 1)
      <4>1. i \in 1..(Len(unsent) - 1) /\ i + 1 \in 1..Len(unsent)
        BY <1>2, <1>3
      <4>2. unsent'[i] \in 1..Len(mem)
        BY <1>3
      <4>3. QED
        BY <1>2, <1>3, <1>9, <4>1, <4>2
    <3>2. unsent'[i] # id
      BY <1>4 DEF Holds
    <3>3. mem'[unsent'[i]] = mem[unsent[i + 1]]
      BY <1>8, <3>1, <3>2
    <3>4. Content(mem[unsent[i + 1]]) = Block(stream, Len(wire) + (i + 1))
      BY <3>1 DEF IInv, ContentInv
    <3>5. QED
      BY <3>1, <3>3, <3>4
  <2>4. QED
    BY <1>1, <2>2, <2>3 DEF ContentInv
<1>16. StorageHolds'
  <2>1. ASSUME NEW j \in 1..Len(mem')
        PROVE  EncodedLength(Len(mem'[j].data)) <= mem'[j].cap
    <3>1. CASE j = id
      <4>1. Len(mem'[j].data) = 0
        BY <1>6, <1>8, <3>1
      <4>2. EncodedLength(0) = 0
        BY EncodedLengthNat
      <4>3. QED
        BY <1>6, <1>8, <3>1, <4>1, <4>2
    <3>2. CASE j # id
      BY <1>8, <3>2 DEF IInv, StorageHolds
    <3>3. QED
      BY <3>1, <3>2
  <2>2. QED
    BY <1>1, <2>1 DEF IInv, StorageHolds
<1>17. RejectsOnlyBadStreams'
  BY <1>1 DEF IInv, RejectsOnlyBadStreams
<1>18. QED
  BY <1>11, <1>12, <1>13, <1>14, <1>15, <1>16, <1>17 DEF IInv

LEMMA WriteReturnsKeeps == IInv /\ WriteReturns => IInv'
<1> SUFFICES ASSUME IInv, WriteReturns
             PROVE  IInv'
  OBVIOUS
<1>1. /\ pc = "write" /\ pc' = "recycle"
      /\ response_busy' = response_busy \o out
      /\ out' = << >>
      /\ UNCHANGED <<stream, recv, upstream_done, status, in,
                     response_frame, response_frame_buf, response_free,
                     trailers_sent, mem, unsent, wire>>
  BY DEF WriteReturns
<1>2. /\ response_busy \in Seq(1..Len(mem)) /\ out \in Seq(1..Len(mem))
      /\ response_free \in Seq(1..Len(mem))
      /\ Len(response_free) \in Nat
      /\ Len(response_busy) \in Nat /\ Len(out) \in Nat
  BY DEF IInv, TypeOK
<1>3. /\ response_busy' \in Seq(1..Len(mem))
      /\ Len(response_busy') = Len(response_busy) + Len(out)
  BY <1>1, <1>2, ConcatFacts
<1>4. /\ Len(out') = 0 /\ out' \in Seq(1..Len(mem))
  BY <1>1
<1>5. TypeOK'
  BY <1>1, <1>3, <1>4 DEF IInv, TypeOK
<1>6. Made' = Made /\ CallInv'
  BY <1>1 DEF Made, IInv, CallInv
<1>7. ParserInv' /\ CountInv'
  BY <1>1, <1>6 DEF IInv, ParserInv, ParserAt, CountInv, Legal, Complete,
                    Messages, LastCut, TrailersFit, FrameSize
<1>8. ChainsInv'
  <2>1. Injective(response_busy') /\ Disjoint(response_free, response_busy')
    BY <1>1, <1>2, InjectiveConcat, DisjointConcat DEF IInv, ChainsInv
  <2>2. /\ Injective(out')
        /\ Disjoint(response_free, out')
        /\ Disjoint(response_busy', out')
    BY <1>4 DEF Injective, Disjoint
  <2>3. status = "open" =>
          Len(response_free) + Len(response_busy') + Len(out') = Len(mem)
    <3>1. status = "open" =>
            Len(response_free) + Len(response_busy) + Len(out) = Len(mem)
      BY DEF IInv, ChainsInv
    <3>2. QED
      BY <1>2, <1>3, <1>4, <3>1
  <2>4. QED
    BY <1>1, <2>1, <2>2, <2>3 DEF IInv, ChainsInv
<1>9. ContentInv' /\ StorageHolds' /\ RejectsOnlyBadStreams'
  BY <1>1 DEF IInv, ContentInv, StorageHolds, RejectsOnlyBadStreams
<1>10. QED
  BY <1>5, <1>6, <1>7, <1>8, <1>9 DEF IInv

LEMMA RecycleKeeps == IInv /\ Recycle => IInv'
<1> SUFFICES ASSUME IInv, Recycle
             PROVE  IInv'
  OBVIOUS
<1> DEFINE id == Head(response_busy)
<1>1. /\ pc = "recycle" /\ pc' = "recycle"
      /\ response_busy # << >>
      /\ mem[id].data = << >>
      /\ response_free' = <<id>> \o response_free
      /\ response_busy' = Tail(response_busy)
      /\ UNCHANGED <<stream, recv, upstream_done, status, in, out,
                     response_frame, response_frame_buf, trailers_sent, mem,
                     unsent, wire>>
  BY DEF Recycle, Sent
<1>2. /\ response_busy \in Seq(1..Len(mem)) /\ out \in Seq(1..Len(mem))
      /\ response_free \in Seq(1..Len(mem))
      /\ unsent \in Seq(1..Len(mem))
      /\ Len(response_free) \in Nat
      /\ Len(response_busy) \in Nat /\ Len(out) \in Nat
      /\ Len(wire) \in Nat /\ Len(unsent) \in Nat
      /\ stream \in Streams
  BY DEF IInv, TypeOK
<1>3. /\ id = response_busy[1] /\ 1 \in 1..Len(response_busy)
      /\ id \in 1..Len(mem)
      /\ response_busy' \in Seq(1..Len(mem))
      /\ Len(response_busy') = Len(response_busy) - 1
  BY <1>1, <1>2, TailFacts
<1>4. /\ Injective(response_busy') /\ ~Holds(response_busy', id)
      /\ Disjoint(response_free, response_busy') /\ ~Holds(response_free, id)
  BY <1>1, <1>2, InjectiveTail, DisjointTail DEF IInv, ChainsInv
<1>5. out = << >> /\ Len(out) = 0
  BY <1>1 DEF IInv, ChainsInv
<1> HIDE DEF id
<1>6. /\ response_free' \in Seq(1..Len(mem))
      /\ Len(response_free') = Len(response_free) + 1
  BY <1>1, <1>2, <1>3, ConsFacts
<1>7. ~Holds(unsent, id)
  <2>1. ASSUME NEW i \in 1..Len(unsent), unsent[i] = id
        PROVE  FALSE
    <3>1. Content(mem[id]) = Block(stream, Len(wire) + i)
      BY <2>1 DEF IInv, ContentInv
    <3>2. Block(stream, Len(wire) + i).data = << >>
      BY <1>1, <3>1 DEF Content
    <3>3. Made = Len(wire) + Len(unsent)
      BY <1>1, <1>2 DEF Made
    <3>4. Made <= Messages(stream) + 1 /\ Messages(stream) \in Nat
      BY <1>2, StreamFacts DEF IInv, CountInv
    <3>5. Len(wire) + i \in 1..(Messages(stream) + 1)
      BY <1>2, <3>3, <3>4
    <3>6. QED
      BY <1>2, <3>2, <3>5, BlockNotEmpty
  <2>2. QED
    BY <2>1 DEF Holds
<1>8. ChainsInv'
  <2>1. Injective(response_free')
    BY <1>1, <1>2, <1>3, <1>4, InjectiveCons DEF IInv, ChainsInv
  <2>2. /\ Disjoint(response_free', response_busy')
        /\ Disjoint(response_free', unsent)
    BY <1>1, <1>2, <1>3, <1>4, <1>7, DisjointCons DEF IInv, ChainsInv
  <2>3. Disjoint(response_free', out) /\ Disjoint(response_busy', out)
    BY <1>5 DEF Disjoint
  <2>4. status = "open" =>
          Len(response_free') + Len(response_busy') + Len(out) = Len(mem)
    <3>1. status = "open" =>
            Len(response_free) + Len(response_busy) + Len(out) = Len(mem)
      BY DEF IInv, ChainsInv
    <3>2. Len(response_free') + Len(response_busy')
            = Len(response_free) + Len(response_busy)
      BY <1>2, <1>3, <1>6
    <3>3. QED
      BY <3>1, <3>2
  <2>5. QED
    BY <1>1, <1>4, <2>1, <2>2, <2>3, <2>4 DEF IInv, ChainsInv
<1>9. TypeOK'
  BY <1>1, <1>3, <1>6 DEF IInv, TypeOK
<1>10. Made' = Made /\ CallInv'
  BY <1>1 DEF Made, IInv, CallInv
<1>11. ParserInv' /\ CountInv'
  BY <1>1, <1>10 DEF IInv, ParserInv, ParserAt, CountInv, Legal, Complete,
                     Messages, LastCut, TrailersFit, FrameSize
<1>12. ContentInv' /\ StorageHolds' /\ RejectsOnlyBadStreams'
  BY <1>1 DEF IInv, ContentInv, StorageHolds, RejectsOnlyBadStreams
<1>13. QED
  BY <1>8, <1>9, <1>10, <1>11, <1>12 DEF IInv

LEMMA ReturnKeeps == IInv /\ Return => IInv'
<1> SUFFICES ASSUME IInv, Return
             PROVE  IInv'
  OBVIOUS
<1>1. /\ pc = "recycle" /\ pc' = "idle"
      /\ UNCHANGED <<stream, recv, upstream_done, status, in, out, mem,
                     unsent, wire>>
      /\ UNCHANGED <<response_frame, response_frame_buf, response_free,
                     response_busy, trailers_sent>>
  BY DEF Return, ctx
<1>2. TypeOK' /\ CallInv' /\ Made' = Made
  BY <1>1 DEF IInv, TypeOK, CallInv, Made
<1>3. ParserInv' /\ CountInv'
  BY <1>1, <1>2 DEF IInv, ParserInv, ParserAt, CountInv, Legal, Complete,
                    Messages, LastCut, TrailersFit, FrameSize
<1>4. ChainsInv' /\ ContentInv' /\ StorageHolds' /\ RejectsOnlyBadStreams'
  BY <1>1 DEF IInv, ChainsInv, ContentInv, StorageHolds, RejectsOnlyBadStreams
<1>5. QED
  BY <1>2, <1>3, <1>4 DEF IInv

-----------------------------------------------------------------------------
(* The invariant holds, and what follows from it.                          *)

LEMMA InitIInv == Init => IInv
<1> SUFFICES ASSUME Init
             PROVE  IInv
  OBVIOUS
<1>1. /\ stream \in Streams
      /\ recv = 0 /\ upstream_done = FALSE /\ status = "open" /\ pc = "idle"
      /\ in = << >> /\ out = << >>
      /\ response_frame = FreshParser
      /\ response_frame_buf = [data |-> << >>, cap |-> 0]
      /\ response_free = << >> /\ response_busy = << >>
      /\ trailers_sent = FALSE
      /\ mem = << >> /\ unsent = << >> /\ wire = << >>
  BY DEF Init
<1>2. /\ Messages(stream) \in Nat
      /\ Len(stream.cuts) = Messages(stream) + 1
      /\ stream.cuts[1] = 0
      /\ stream.eof \in Nat
  BY <1>1, StreamFacts
<1>3. /\ FreshParser \in Parsers
      /\ FreshParser.header = << >>
      /\ ~FreshParser.header_ready
      /\ FreshParser.payload_seen = 0
  BY DEF FreshParser, Parsers
<1>4. Made = 0
  BY <1>1 DEF Made
<1>5. \A S : << >> \in Seq(S)
  OBVIOUS
<1>6. TypeOK
  <2>1. /\ recv \in 0..stream.eof
        /\ response_frame_buf \in [data : Seq(Nat), cap : Nat]
        /\ Len(mem) = 0
    BY <1>1, <1>2, <1>5
  <2>2. /\ in \in Seq(NativeBufs)
        /\ mem \in Seq(Buffers)
        /\ out \in Seq(1..Len(mem))
        /\ response_free \in Seq(1..Len(mem))
        /\ response_busy \in Seq(1..Len(mem))
        /\ unsent \in Seq(1..Len(mem))
        /\ wire \in Seq([data : Seq(Nat), last_buf : BOOLEAN])
    BY <1>1, <1>5
  <2>3. /\ upstream_done \in BOOLEAN
        /\ status \in {"open", "rejected", "no_memory", "upstream_failed",
                       "closed", "cancelled"}
        /\ pc \in {"idle", "encode", "write", "recycle"}
        /\ trailers_sent \in BOOLEAN
    BY <1>1
  <2>4. response_frame \in Parsers
    BY <1>1, <1>3
  <2>5. QED
    BY <1>1, <2>1, <2>2, <2>3, <2>4, Zenon DEF TypeOK
<1>7. CallInv
  BY <1>1 DEF CallInv
<1>8. ParserInv
  <2>1. /\ Len(response_frame.header) = 0
        /\ Bytes(0, 0) = << >>
        /\ 0 < HeaderSize
    BY <1>1, <1>3, BytesFacts, HeaderSizeAssumption
  <2>2. ParserAt(1)
    BY <1>1, <1>2, <1>3, <2>1 DEF ParserAt
  <2>3. Made + 1 = 1 /\ \A k \in 1..Made : FALSE
    BY <1>4
  <2>4. QED
    BY <2>2, <2>3 DEF ParserInv
<1>9. CountInv
  <2>1. Made <= Messages(stream) + 1 /\ Made # Messages(stream) + 1
    BY <1>2, <1>4
  <2>2. ~trailers_sent
    BY <1>1
  <2>3. QED
    BY <2>1, <2>2 DEF CountInv
<1>10. ChainsInv
  BY <1>1 DEF ChainsInv, Injective, Disjoint
<1>11. ContentInv /\ StorageHolds /\ RejectsOnlyBadStreams
  BY <1>1 DEF ContentInv, StorageHolds, RejectsOnlyBadStreams
<1>12. QED
  BY <1>6, <1>7, <1>8, <1>9, <1>10, <1>11 DEF IInv

LEMMA StutterKeeps == IInv /\ UNCHANGED vars => IInv'
<1> SUFFICES ASSUME IInv, UNCHANGED vars
             PROVE  IInv'
  OBVIOUS
<1>1. UNCHANGED <<stream, recv, upstream_done, status, pc, in, out,
                  response_frame, response_frame_buf, response_free,
                  response_busy, trailers_sent, mem, unsent, wire>>
  BY DEF vars, ctx
<1>2. TypeOK' /\ CallInv' /\ Made' = Made
  BY <1>1 DEF IInv, TypeOK, CallInv, Made
<1>3. ParserInv' /\ CountInv'
  BY <1>1, <1>2 DEF IInv, ParserInv, ParserAt, CountInv, Legal, Complete,
                    Messages, LastCut, TrailersFit, FrameSize
<1>4. ChainsInv' /\ ContentInv' /\ StorageHolds' /\ RejectsOnlyBadStreams'
  BY <1>1 DEF IInv, ChainsInv, ContentInv, StorageHolds, RejectsOnlyBadStreams
<1>5. QED
  BY <1>2, <1>3, <1>4 DEF IInv

LEMMA NextIInv == IInv /\ [Next]_vars => IInv'
<1> SUFFICES ASSUME IInv, [Next]_vars
             PROVE  IInv'
  OBVIOUS
<1>1. ASSUME NEW c \in Chains, BodyFilter(c)
      PROVE  IInv'
  BY <1>1, BodyFilterKeeps
<1>2. CASE Encode
  <2>1. CASE ReadHeader
    BY <2>1, ReadHeaderKeeps
  <2>2. CASE RejectFrame
    BY <2>2, RejectFrameKeeps
  <2>3. CASE OpenFrame
    BY <2>3, OpenFrameKeeps
  <2>4. CASE EmptyFrame
    BY <2>4, EmptyFrameKeeps
  <2>5. CASE ReadPayload
    BY <2>5, ReadPayloadKeeps
  <2>6. CASE CloseFrame
    BY <2>6, CloseFrameKeeps
  <2>7. CASE NextBuffer
    BY <2>7, NextBufferKeeps
  <2>8. CASE RejectEnd
    BY <2>8, RejectEndKeeps
  <2>9. CASE EncodeTrailers
    BY <2>9, EncodeTrailersKeeps
  <2>10. CASE AllocationFails
    BY <2>10, OtherEndsKeep
  <2>11. QED
    BY <1>2, <2>1, <2>2, <2>3, <2>4, <2>5, <2>6, <2>7, <2>8, <2>9, <2>10
       DEF Encode
<1>3. CASE Pass
  <2>1. CASE EndOfChain
    BY <2>1, EndOfChainKeeps
  <2>2. CASE WriteReturns
    BY <2>2, WriteReturnsKeeps
  <2>3. CASE Recycle
    BY <2>3, RecycleKeeps
  <2>4. CASE Return
    BY <2>4, ReturnKeeps
  <2>5. QED
    BY <1>3, <2>1, <2>2, <2>3, <2>4 DEF Pass
<1>4. CASE SendBlock
  BY <1>4, SendBlockKeeps
<1>5. CASE UpstreamFails \/ Close \/ Cancel
  BY <1>5, OtherEndsKeep
<1>6. CASE Over \/ UNCHANGED vars
  BY <1>6, StutterKeeps DEF Over
<1>7. QED
  BY <1>1, <1>2, <1>3, <1>4, <1>5, <1>6 DEF Next

LEMMA SpecIInv == Spec => []IInv
  BY InitIInv, NextIInv, PTL DEF Spec

(* Every variable keeps its type: no parser field, chain or buffer reaches a
   value that the C types and the request's buffers do not have. *)
THEOREM TypeCorrect == Spec => []TypeOK
<1>1. IInv => TypeOK
  BY DEF IInv
<1>2. QED
  BY SpecIInv, <1>1, PTL

(* The client's blocks are the upstream's frames, whole and in order, and
   then the trailer frame, whatever the cuts, the recycling, the back-
   pressure and the failures (lines 950-1103 and 1186-1208). *)
THEOREM FramesArriveInOrder == Spec => []DeliveredInOrder
<1>1. IInv => DeliveredInOrder
  <2> SUFFICES ASSUME IInv
               PROVE  DeliveredInOrder
    OBVIOUS
  <2>1. /\ Len(wire) \in Nat /\ Len(unsent) \in Nat /\ Len(out) \in Nat
        /\ stream \in Streams
    BY DEF IInv, TypeOK
  <2>2. Made <= Messages(stream) + 1 /\ Messages(stream) \in Nat
    BY <2>1, StreamFacts DEF IInv, CountInv
  <2>3. Made \in Nat /\ Len(wire) <= Made
    <3>1. CASE pc = "encode"
      BY <2>1, <3>1 DEF Made
    <3>2. CASE pc # "encode"
      BY <2>1, <3>2 DEF Made
    <3>3. QED
      BY <3>1, <3>2
  <2>4. Len(wire) <= Messages(stream) + 1
    BY <2>1, <2>2, <2>3
  <2>5. QED
    BY <2>4 DEF IInv, ContentInv, DeliveredInOrder
<1>2. QED
  BY SpecIInv, <1>1, PTL

(* A terminal frame means that the upstream finished a response that obeys
   the limits (lines 1072-1099). *)
THEOREM TerminalIsTrue == Spec => []NoFalseTerminal
<1>1. IInv => NoFalseTerminal
  <2> SUFFICES ASSUME IInv, NEW i \in 1..Len(wire), wire[i].last_buf
               PROVE  Complete(stream)
    BY DEF NoFalseTerminal
  <2>1. /\ Len(wire) \in Nat /\ Len(unsent) \in Nat /\ Len(out) \in Nat
        /\ stream \in Streams
    BY DEF IInv, TypeOK
  <2>2. Messages(stream) \in Nat
    BY <2>1, StreamFacts
  <2>3. wire[i] = Block(stream, i)
    BY DEF IInv, ContentInv
  <2>4. ~ (i <= Messages(stream))
    BY <2>3 DEF Block
  <2>5. Made \in Nat /\ Len(wire) <= Made
    <3>1. CASE pc = "encode"
      BY <2>1, <3>1 DEF Made
    <3>2. CASE pc # "encode"
      BY <2>1, <3>2 DEF Made
    <3>3. QED
      BY <3>1, <3>2
  <2>6. Made <= Messages(stream) + 1
    BY DEF IInv, CountInv
  <2>7. Made = Messages(stream) + 1
    BY <2>1, <2>2, <2>4, <2>5, <2>6
  <2>8. QED
    BY <2>7 DEF IInv, CountInv
<1>2. QED
  BY SpecIInv, <1>1, PTL

(* The filter refuses a response only for what the upstream sent (lines 992,
   1076 and 703), however its bytes were cut into buffers. *)
THEOREM RefusalsAreCaused == Spec => []RejectsOnlyBadStreams
<1>1. IInv => RejectsOnlyBadStreams
  BY DEF IInv
<1>2. QED
  BY SpecIInv, <1>1, PTL

(* No encoded buffer is lost and none is on two chains (lines 909 and
   1193-1206). *)
THEOREM ChainsPartitionBuffers == Spec => []BuffersOwnedOnce
<1>1. IInv => BuffersOwnedOnce
  <2> SUFFICES ASSUME IInv
               PROVE  BuffersOwnedOnce
    OBVIOUS
  <2> DEFINE fb == response_free \o response_busy
             chains == fb \o out
  <2>1. /\ response_free \in Seq(1..Len(mem))
        /\ response_busy \in Seq(1..Len(mem))
        /\ out \in Seq(1..Len(mem))
    BY DEF IInv, TypeOK
  <2>2. /\ Injective(response_free) /\ Injective(response_busy)
        /\ Injective(out)
        /\ Disjoint(response_free, response_busy)
        /\ Disjoint(response_free, out) /\ Disjoint(response_busy, out)
    BY DEF IInv, ChainsInv
  <2>3. Injective(fb)
    BY <2>1, <2>2, InjectiveConcat
  <2>4. fb \in Seq(1..Len(mem))
    BY <2>1, ConcatFacts
  <2>5. Disjoint(fb, out)
    <3>1. /\ Disjoint(out, response_free) /\ Disjoint(out, response_busy)
      BY <2>2 DEF Disjoint
    <3>2. Disjoint(out, fb)
      BY <2>1, <3>1, DisjointConcat
    <3>3. QED
      BY <3>2 DEF Disjoint
  <2>6. /\ Len(fb) = Len(response_free) + Len(response_busy)
        /\ Len(chains) = Len(fb) + Len(out)
    BY <2>1, <2>4, ConcatFacts
  <2> HIDE DEF fb
  <2>7. Injective(chains)
    BY <2>1, <2>2, <2>3, <2>4, <2>5, InjectiveConcat
  <2>8. status = "open" => Len(chains) = Len(mem)
    BY <2>6 DEF IInv, ChainsInv
  <2> HIDE DEF chains
  <2>9. \A i, j \in 1..Len(chains) : i # j => chains[i] # chains[j]
    BY <2>7 DEF Injective
  <2>10. QED
    BY <2>8, <2>9 DEF BuffersOwnedOnce, chains, fb
<1>2. QED
  BY SpecIInv, <1>1, PTL

(* Both copies stay inside the storage reserved for them (lines 933, 1012
   and 1044). *)
THEOREM CopiesFit == Spec => []NoOverrun
<1>1. IInv => NoOverrun
  <2> SUFFICES ASSUME IInv
               PROVE  NoOverrun
    OBVIOUS
  <2>1. StorageHolds
    BY DEF IInv
  <2>2. ASSUME InPayload
        PROVE  Len(Collected) <= response_frame_buf.cap
    <3>1. /\ Len(Collected) = HeaderSize + Parsed.payload_seen
          /\ Parsed.payload_seen <= Parsed.length
          /\ HeaderSize + Parsed.length <= response_frame_buf.cap
          /\ Parsed \in Parsers
      BY <2>2, PayloadStep
    <3>2. /\ Parsed.payload_seen \in Nat /\ Parsed.length \in Nat
          /\ HeaderSize \in Nat /\ response_frame_buf.cap \in Nat
      BY <3>1, HeaderSizeAssumption DEF Parsers, IInv, TypeOK
    <3>3. QED
      BY <3>1, <3>2
  <2>3. QED
    BY <2>1, <2>2 DEF NoOverrun, StorageHolds
<1>2. QED
  BY SpecIInv, <1>1, PTL

-----------------------------------------------------------------------------
(* The response implements WebStream.                                      *)

(* The last buffer of the upstream is known as such from the moment it is
   handed over, and an upstream that failed was not a clean one. *)
EndInv ==
  /\ trailers_sent => upstream_done
  /\ pc = "encode" =>
       \A i \in 1..Len(in) : in[i].last_buf => upstream_done
  /\ status = "upstream_failed" => ~stream.clean

LEMMA NextEndInv == IInv /\ EndInv /\ [Next]_vars => EndInv'
<1> SUFFICES ASSUME IInv, EndInv, [Next]_vars
             PROVE  EndInv'
  OBVIOUS
<1>1. in \in Seq(NativeBufs)
  BY DEF IInv, TypeOK
<1>2. ASSUME NEW c \in Chains, BodyFilter(c)
      PROVE  EndInv'
  <2>1. /\ in' = c /\ upstream_done' = c[Len(c)].last_buf
        /\ status = "open" /\ ~trailers_sent
        /\ UNCHANGED <<status, trailers_sent>>
    BY <1>2 DEF BodyFilter, ctx
  <2>2. PICK m \in 1..MaxBufs :
          c \in [1..m -> [end : recv..stream.eof, last_buf : BOOLEAN]]
    BY DEF Chains
  <2>3. Len(c) = m /\ m \in Nat
    BY <2>2, TextAssumption
  <2>4. \A i, j \in 1..Len(c) : i < j => ~c[i].last_buf
    BY DEF Chains
  <2>5. ASSUME NEW i \in 1..Len(c), c[i].last_buf
        PROVE  i = Len(c)
    BY <2>3, <2>4, <2>5
  <2>6. QED
    BY <2>1, <2>5 DEF EndInv
<1>3. CASE NextBuffer \/ EncodeTrailers
  <2>1. /\ pc = "encode" /\ in # << >> /\ in' = Tail(in)
        /\ UNCHANGED <<upstream_done, status, stream>>
    BY <1>3 DEF NextBuffer, EncodeTrailers, AtLastBuf
  <2>2. /\ \A i \in 1..Len(in') : i + 1 \in 1..Len(in) /\ in'[i] = in[i + 1]
        /\ 1 \in 1..Len(in) /\ Head(in) = in[1]
    <3>1. Len(in) \in Nat /\ Len(in) >= 1 /\ Len(in') = Len(in) - 1
      BY <1>1, <2>1, TailFacts
    <3>2. QED
      BY <1>1, <2>1, <3>1, TailFacts
  <2>3. \A i \in 1..Len(in') : in'[i].last_buf => upstream_done
    BY <2>1, <2>2 DEF EndInv
  <2>4. trailers_sent' => upstream_done
    <3>1. CASE NextBuffer
      BY <3>1 DEF NextBuffer, ctx, EndInv
    <3>2. CASE EncodeTrailers
      BY <2>1, <2>2, <3>2 DEF EncodeTrailers, AtLastBuf, EndInv
    <3>3. QED
      BY <1>3, <3>1, <3>2
  <2>5. QED
    BY <2>1, <2>3, <2>4 DEF EndInv
<1>4. CASE ReadHeader \/ OpenFrame \/ EmptyFrame \/ ReadPayload \/ CloseFrame
             \/ SendBlock \/ Over \/ UNCHANGED vars
  <2>1. UNCHANGED <<trailers_sent, upstream_done, pc, in, status, stream>>
    BY <1>4 DEF ReadHeader, OpenFrame, EmptyFrame, ReadPayload, CloseFrame,
                SendBlock, Over, vars, ctx
  <2>2. QED
    BY <2>1 DEF EndInv
<1>5. CASE RejectFrame \/ RejectEnd \/ AllocationFails \/ EndOfChain
             \/ WriteReturns \/ Recycle \/ Return \/ Close \/ Cancel
  <2>1. /\ pc' # "encode"
        /\ status' # "upstream_failed" \/ status' = status
        /\ UNCHANGED <<trailers_sent, upstream_done, stream>>
    <3>1. CASE RejectFrame \/ RejectEnd \/ AllocationFails
      BY <3>1 DEF RejectFrame, RejectEnd, AllocationFails, Terminate, ctx
    <3>2. CASE EndOfChain
      BY <3>2 DEF EndOfChain, ctx
    <3>3. CASE WriteReturns \/ Recycle \/ Return
      BY <3>3 DEF WriteReturns, Recycle, Return, ctx
    <3>4. CASE Close \/ Cancel
      BY <3>4 DEF Close, Cancel, ctx
    <3>5. QED
      BY <1>5, <3>1, <3>2, <3>3, <3>4
  <2>2. QED
    BY <2>1 DEF EndInv
<1>6. CASE UpstreamFails
  BY <1>6 DEF UpstreamFails, EndInv, ctx
<1>7. QED
  BY <1>2, <1>3, <1>4, <1>5, <1>6 DEF Next, Encode, Pass

LEMMA SpecEndInv == Spec => [](IInv /\ EndInv)
<1>1. Init => EndInv
  BY DEF Init, EndInv
<1>2. QED
  BY <1>1, InitIInv, NextIInv, NextEndInv, PTL DEF Spec

(* A client that has the terminal block has a response that is over: until
   then the request may break off, from then on it may not. *)
LEMMA TerminalEnds ==
  ASSUME IInv, EndInv, Sending, Len(wire) = Messages(stream) + 1
  PROVE  /\ status = "open" /\ trailers_sent /\ upstream_done
         /\ unsent = << >>
         /\ pc = "encode" => in = << >>
<1>1. /\ Len(wire) \in Nat /\ Len(unsent) \in Nat /\ Len(out) \in Nat
      /\ unsent \in Seq(1..Len(mem))
      /\ stream \in Streams
      /\ trailers_sent \in BOOLEAN
  BY DEF IInv, TypeOK
<1>2. Messages(stream) \in Nat /\ Len(stream.cuts) = Messages(stream) + 1
  BY <1>1, StreamFacts
<1>3. Made = Messages(stream) + 1 /\ Len(unsent) = 0
  <2>1. Made <= Messages(stream) + 1
    BY DEF IInv, CountInv
  <2>2. CASE pc = "encode"
    BY <1>1, <1>2, <2>1, <2>2 DEF Made
  <2>3. CASE pc # "encode"
    BY <1>1, <1>2, <2>1, <2>3 DEF Made
  <2>4. QED
    BY <2>2, <2>3
<1>4. Complete(stream)
  BY <1>3 DEF IInv, CountInv
<1>5. status = "open"
  BY <1>4 DEF Complete, EndInv, Sending
<1>6. trailers_sent
  <2>1. SUFFICES ASSUME ~trailers_sent
                 PROVE  FALSE
    BY <1>1
  <2>2. Made + 1 \in 1..Len(stream.cuts)
    BY <1>5, <2>1 DEF IInv, ParserInv, ParserAt
  <2>3. QED
    BY <1>2, <1>3, <2>2
<1>7. QED
  BY <1>1, <1>3, <1>5, <1>6 DEF IInv, CountInv, EndInv

(* What a client can tell of the response. *)
Outcome == IF ~Sending THEN "broken"
           ELSE IF Len(wire) = Messages(stream) + 1 THEN "finished"
           ELSE "open"

(* A block that the client takes is the next message, or the terminal one. *)
LEMMA SendBlockDelivers ==
  IInv /\ EndInv /\ SendBlock => Client!Deliver \/ Client!Finish
<1> SUFFICES ASSUME IInv, EndInv, SendBlock
             PROVE  Client!Deliver \/ Client!Finish
  OBVIOUS
<1> DEFINE n == Messages(stream)
           b == mem[Head(unsent)]
<1>1. /\ Sending /\ unsent # << >> /\ pc # "encode"
      /\ wire' = Append(wire, Content(b))
      /\ UNCHANGED <<stream, status>>
  BY DEF SendBlock, Content
<1>2. /\ Len(wire) \in Nat /\ Len(unsent) \in Nat
      /\ wire \in Seq([data : Seq(Nat), last_buf : BOOLEAN])
      /\ unsent \in Seq(1..Len(mem)) /\ mem \in Seq(Buffers)
      /\ stream \in Streams
  BY DEF IInv, TypeOK
<1>3. n \in Nat
  BY <1>2, StreamFacts
<1>4. Head(unsent) = unsent[1] /\ 1 \in 1..Len(unsent)
      /\ Head(unsent) \in 1..Len(mem)
  BY <1>1, <1>2, TailFacts
<1>5. Content(b) = Block(stream, Len(wire) + 1)
  BY <1>4 DEF IInv, ContentInv
<1>6. Content(b) \in [data : Seq(Nat), last_buf : BOOLEAN]
  <2>1. b \in Buffers
    BY <1>2, <1>4
  <2>2. QED
    BY <2>1 DEF Buffers, Content
<1>7. Len(wire') = Len(wire) + 1
  BY <1>1, <1>2, <1>6, AppendProperties
<1>8. Len(wire) <= n
  <2>1. Made = Len(wire) + Len(unsent) /\ Made <= n + 1
    BY <1>1, <1>2 DEF IInv, CountInv, Made
  <2>2. QED
    BY <1>2, <1>3, <1>4, <2>1
<1>9. Sending' /\ Messages(stream') = n /\ Plan(stream') = Plan(stream)
  BY <1>1 DEF Sending
<1>10. Outcome = "open"
  <2>1. Len(wire) # n + 1
    BY <1>2, <1>3, <1>8
  <2>2. QED
    BY <1>1, <2>1 DEF Outcome
<1>11. /\ Plan(stream).terminal = Block(stream, n + 1)
       /\ Len(Plan(stream).messages) = n
       /\ \A k \in 1..n : Plan(stream).messages[k] = Block(stream, k)
       /\ Plan(stream).complete = Complete(stream)
  BY <1>3 DEF Plan
<1>12. CASE Len(wire) < n
  <2>1. Outcome' = "open"
    <3>1. Len(wire') # n + 1
      BY <1>2, <1>3, <1>7, <1>12
    <3>2. QED
      BY <1>9, <3>1 DEF Outcome
  <2>2. Len(wire) + 1 \in 1..n
    BY <1>2, <1>3, <1>12
  <2>3. wire' = Append(wire, Plan(stream).messages[Len(wire) + 1])
    BY <1>1, <1>5, <1>11, <2>2
  <2>4. Client!Deliver
    BY <1>9, <1>10, <1>11, <1>12, <2>1, <2>3 DEF Client!Deliver, Outcome
  <2>5. QED
    BY <2>4
<1>13. CASE Len(wire) = n
  <2>1. Outcome' = "finished"
    BY <1>7, <1>9, <1>13 DEF Outcome
  <2>2. Made = n + 1
    BY <1>1, <1>2, <1>3, <1>4, <1>13 DEF IInv, CountInv, Made
  <2>3. Complete(stream)
    BY <2>2 DEF IInv, CountInv
  <2>4. wire' = Append(wire, Plan(stream).terminal)
    BY <1>1, <1>5, <1>11, <1>13
  <2>5. Client!Finish
    BY <1>9, <1>10, <1>11, <1>13, <2>1, <2>3, <2>4
       DEF Client!Finish, Outcome
  <2>6. QED
    BY <2>5
<1>14. QED
  BY <1>2, <1>3, <1>8, <1>12, <1>13

(* Whatever terminates the request finds the response still open. *)
LEMMA TerminationBreaksOff ==
  ASSUME IInv, EndInv, Sending, ~Sending', UNCHANGED <<stream, wire>>,
         RejectFrame \/ RejectEnd \/ AllocationFails \/ Close \/ Cancel
  PROVE  Client!BreakOff
<1>1. Len(wire) # Messages(stream) + 1
  <2>1. SUFFICES ASSUME Len(wire) = Messages(stream) + 1
                 PROVE  FALSE
    OBVIOUS
  <2>2. /\ status = "open" /\ upstream_done /\ unsent = << >>
        /\ pc = "encode" => in = << >>
    BY <2>1, TerminalEnds
  <2>3. CASE RejectFrame \/ RejectEnd \/ AllocationFails
    BY <2>2, <2>3 DEF RejectFrame, RejectEnd, AllocationFails, InHeader,
                      InPayload, AtLastBuf
  <2>4. CASE Close \/ Cancel
    BY <2>2, <2>4 DEF Close, Cancel, Finished
  <2>5. QED
    BY <2>3, <2>4
<1>2. Outcome = "open" /\ Outcome' = "broken"
  BY <1>1 DEF Outcome
<1>3. Plan(stream') = Plan(stream)
  OBVIOUS
<1>4. QED
  BY <1>2, <1>3 DEF Client!BreakOff, Outcome

LEMMA StepImplementsWebStream ==
  IInv /\ EndInv /\ [Next]_vars => [Client!Next]_Client!vars
<1> SUFFICES ASSUME IInv, EndInv, [Next]_vars
             PROVE  [Client!Next]_Client!vars
  OBVIOUS
<1>1. ASSUME UNCHANGED <<stream, wire, status>>
      PROVE  UNCHANGED Client!vars
  <2>1. Outcome' = Outcome /\ Plan(stream') = Plan(stream)
    BY <1>1 DEF Outcome, Sending
  <2>2. QED
    BY <1>1, <2>1 DEF Client!vars, Outcome
<1>2. CASE SendBlock
  BY <1>2, SendBlockDelivers DEF Client!Next
<1>3. CASE RejectFrame \/ RejectEnd \/ AllocationFails \/ Close \/ Cancel
  <2>1. UNCHANGED <<stream, wire>> /\ ~Sending'
    BY <1>3 DEF RejectFrame, RejectEnd, AllocationFails, Close, Cancel,
                Terminate, Sending, ctx
  <2>2. Sending
    BY <1>3 DEF RejectFrame, RejectEnd, AllocationFails, InHeader, InPayload,
                AtLastBuf, Close, Cancel, Sending, IInv, CallInv
  <2>3. QED
    BY <1>3, <2>1, <2>2, TerminationBreaksOff DEF Client!Next
<1>4. CASE UpstreamFails
  <2>1. Sending /\ Sending' /\ UNCHANGED <<stream, wire>>
    BY <1>4 DEF UpstreamFails, Sending
  <2>2. Outcome' = Outcome /\ Plan(stream') = Plan(stream)
    BY <2>1 DEF Outcome
  <2>3. QED
    BY <2>1, <2>2 DEF Client!vars, Outcome
<1>5. ASSUME NEW c \in Chains, BodyFilter(c)
      PROVE  UNCHANGED <<stream, wire, status>>
  BY <1>5 DEF BodyFilter
<1>6. CASE \/ ReadHeader \/ OpenFrame \/ EmptyFrame \/ ReadPayload
           \/ CloseFrame \/ NextBuffer \/ EncodeTrailers \/ Pass
           \/ Over \/ UNCHANGED vars
  <2>1. UNCHANGED <<stream, wire, status>>
    BY <1>6 DEF ReadHeader, OpenFrame, EmptyFrame, ReadPayload, CloseFrame,
                NextBuffer, EncodeTrailers, Pass, EndOfChain, WriteReturns,
                Recycle, Return, Over, vars
  <2>2. QED
    BY <1>1, <2>1
<1>7. QED
  BY <1>1, <1>2, <1>3, <1>4, <1>5, <1>6 DEF Next, Encode

(* The filter keeps the promise made to a client (docs/ARCHITECTURE.md, 5):
   it takes the upstream's messages, each one whole and in order, and a
   terminal block only after the last one of a finished response; otherwise
   the response breaks off after a complete block. *)
THEOREM ResponseIsWebStream == Spec => ImplementsWebStream
<1>1. Init => Client!Init
  <2> SUFFICES ASSUME Init
               PROVE  Client!Init
    OBVIOUS
  <2>1. /\ stream \in Streams /\ wire = << >> /\ status = "open"
        /\ Messages(stream) \in Nat
    BY StreamFacts DEF Init
  <2>2. Outcome = "open"
    <3>1. Len(wire) = 0 /\ Messages(stream) + 1 # 0
      BY <2>1
    <3>2. QED
      BY <2>1, <3>1 DEF Outcome, Sending
  <2>3. QED
    BY <2>1, <2>2 DEF Client!Init, Outcome
<1>2. QED
  BY <1>1, SpecEndInv, StepImplementsWebStream, PTL
     DEF Spec, ImplementsWebStream, Client!Spec

-----------------------------------------------------------------------------
(* The busy chain holds what the client has not taken.                     *)

(* What this request has passed on, oldest first; while the write filter
   runs, the chain of this call is passed on but not busy yet. *)
Passed == IF pc = "write" THEN response_busy \o out ELSE response_busy

(* r->out is the end of what was passed on, and all before it is sent. *)
HeldInv ==
  LET sent == Len(Passed) - Len(unsent)
  IN  /\ sent >= 0
      /\ \A i \in 1..Len(unsent) : unsent[i] = Passed[sent + i]
      /\ \A i \in 1..sent : mem[Passed[i]].data = << >>

(* A buffer in r->out holds a block, and a block is never empty. *)
LEMMA UnsentNotEmpty ==
  ASSUME IInv, pc # "encode", NEW i \in 1..Len(unsent)
  PROVE  mem[unsent[i]].data # << >>
<1>1. /\ Len(wire) \in Nat /\ Len(unsent) \in Nat /\ stream \in Streams
  BY DEF IInv, TypeOK
<1>2. Made = Len(wire) + Len(unsent)
  BY <1>1 DEF Made
<1>3. Made <= Messages(stream) + 1 /\ Messages(stream) \in Nat
  BY <1>1, StreamFacts DEF IInv, CountInv
<1>4. Len(wire) + i \in 1..(Messages(stream) + 1)
  BY <1>1, <1>2, <1>3
<1>5. Block(stream, Len(wire) + i).data # << >>
  BY <1>1, <1>4, BlockNotEmpty
<1>6. Content(mem[unsent[i]]) = Block(stream, Len(wire) + i)
  BY DEF IInv, ContentInv
<1>7. QED
  BY <1>5, <1>6 DEF Content

(* Each of the three places that encode takes a block of bounded size. *)
LEMMA EncodedBlocks ==
  ASSUME IInv, EmptyFrame \/ CloseFrame \/ EncodeTrailers
  PROVE  \E data \in Seq(Nat), last_buf \in BOOLEAN :
           /\ EncodeBlock(data, last_buf)
           /\ Len(data) <= HeaderSize + MaxFrameSize
<1>1. HeaderSize \in Nat /\ MaxFrameSize \in Nat
  BY HeaderSizeAssumption, TextAssumption
<1>2. CASE EmptyFrame
  <2>1. /\ InHeader /\ Parsed.header_ready
        /\ EncodeBlock(PreparedFrame.data, FALSE)
    BY <1>2 DEF EmptyFrame
  <2>2. Parsed \in Parsers /\ Len(Parsed.header) = HeaderSize
    BY <2>1, HeaderStep
  <2>3. PreparedFrame.data \in Seq(Nat) /\ Len(PreparedFrame.data) = HeaderSize
    BY <2>2 DEF PreparedFrame, Parsers
  <2>4. Len(PreparedFrame.data) <= HeaderSize + MaxFrameSize
    BY <1>1, <2>3
  <2>5. QED
    BY <2>1, <2>3, <2>4
<1>3. CASE CloseFrame
  <2>1. InPayload /\ EncodeBlock(Collected, FALSE)
    BY <1>3 DEF CloseFrame
  <2>2. /\ Parsed \in Parsers
        /\ Parsed.length <= MaxFrameSize
        /\ Parsed.payload_seen <= Parsed.length
        /\ Collected \in Seq(Nat)
        /\ Len(Collected) = HeaderSize + Parsed.payload_seen
    BY <2>1, PayloadStep
  <2>3. Parsed.length \in Nat /\ Parsed.payload_seen \in Nat
    BY <2>2 DEF Parsers
  <2>4. Len(Collected) <= HeaderSize + MaxFrameSize
    BY <1>1, <2>2, <2>3
  <2>5. QED
    BY <2>1, <2>2, <2>4
<1>4. CASE EncodeTrailers
  <2>1. TrailersFit(stream) /\ EncodeBlock(TrailerFrame(stream), TRUE)
    BY <1>4 DEF EncodeTrailers
  <2>2. /\ stream \in Streams
        /\ stream.trailer \in Nat
        /\ LastCut(stream) \in Nat
    <3>1. stream \in Streams
      BY DEF IInv, TypeOK
    <3>2. /\ Messages(stream) + 1 \in 1..Len(stream.cuts)
          /\ LastCut(stream) = stream.cuts[Messages(stream) + 1]
      BY <3>1, StreamFacts
    <3>3. QED
      BY <3>1, <3>2, StreamFacts
  <2>3. stream.trailer <= MaxFrameSize
    BY <2>1 DEF TrailersFit
  <2>4. /\ HeaderSize + stream.trailer \in Nat
        /\ HeaderSize + stream.trailer <= HeaderSize + MaxFrameSize
    BY <1>1, <2>2, <2>3
  <2>5. /\ TrailerFrame(stream) \in Seq(Nat)
        /\ Len(TrailerFrame(stream)) <= HeaderSize + MaxFrameSize
    BY <2>2, <2>4, BytesFacts DEF TrailerFrame
  <2>6. QED
    BY <2>1, <2>5
<1>5. QED
  BY <1>2, <1>3, <1>4

LEMMA NextHeldInv == IInv /\ HeldInv /\ [Next]_vars => HeldInv'
<1> SUFFICES ASSUME IInv, HeldInv, [Next]_vars
             PROVE  HeldInv'
  OBVIOUS
<1>1. /\ mem \in Seq(Buffers)
      /\ out \in Seq(1..Len(mem))
      /\ response_busy \in Seq(1..Len(mem))
      /\ unsent \in Seq(1..Len(mem))
      /\ Len(unsent) \in Nat /\ Len(out) \in Nat
      /\ Len(response_busy) \in Nat
  BY DEF IInv, TypeOK
<1>2. Passed \in Seq(1..Len(mem)) /\ Len(Passed) \in Nat
  <2>1. response_busy \o out \in Seq(1..Len(mem))
    BY <1>1, ConcatFacts
  <2>2. Passed \in Seq(1..Len(mem))
    BY <1>1, <2>1 DEF Passed
  <2>3. QED
    BY <2>2
<1> DEFINE sent == Len(Passed) - Len(unsent)
<1>3. /\ sent \in Nat
      /\ \A i \in 1..Len(unsent) : unsent[i] = Passed[sent + i]
      /\ \A i \in 1..sent : mem[Passed[i]].data = << >>
      /\ Len(Passed) = sent + Len(unsent)
  <2>1. /\ sent >= 0
        /\ \A i \in 1..Len(unsent) : unsent[i] = Passed[sent + i]
        /\ \A i \in 1..sent : mem[Passed[i]].data = << >>
    BY DEF HeldInv
  <2>2. sent \in Nat /\ Len(Passed) = sent + Len(unsent)
    BY <1>1, <1>2, <2>1
  <2>3. QED
    BY <2>1, <2>2
<1>4. ASSUME Passed' = Passed, UNCHANGED <<unsent, mem>>
      PROVE  HeldInv'
  BY <1>4 DEF HeldInv
<1>5. ASSUME pc # "write", pc' # "write", UNCHANGED <<response_busy, unsent, mem>>
      PROVE  HeldInv'
  <2>1. Passed' = Passed
    BY <1>5 DEF Passed
  <2>2. QED
    BY <1>4, <1>5, <2>1
<1>6. ASSUME NEW c \in Chains, BodyFilter(c)
      PROVE  HeldInv'
  BY <1>5, <1>6 DEF BodyFilter, ctx
<1>7. CASE \/ ReadHeader \/ RejectFrame \/ OpenFrame \/ ReadPayload
           \/ NextBuffer \/ RejectEnd \/ AllocationFails
  <2>1. /\ pc = "encode" /\ pc' # "write"
        /\ UNCHANGED <<response_busy, unsent, mem>>
    BY <1>7 DEF ReadHeader, RejectFrame, OpenFrame, ReadPayload, NextBuffer,
                RejectEnd, AllocationFails, InHeader, InPayload, AtLastBuf,
                Terminate, ctx
  <2>2. QED
    BY <1>5, <2>1
<1>8. CASE UpstreamFails \/ Close \/ Cancel \/ Return
  <2>1. /\ pc # "write" /\ pc' # "write"
        /\ UNCHANGED <<response_busy, unsent, mem>>
    BY <1>8 DEF UpstreamFails, Close, Cancel, Return, ctx
  <2>2. QED
    BY <1>5, <2>1
<1>9. CASE Over \/ UNCHANGED vars
  <2>1. UNCHANGED <<pc, out, response_busy, unsent, mem>>
    BY <1>9 DEF Over, vars, ctx
  <2>2. Passed' = Passed
    BY <2>1 DEF Passed
  <2>3. QED
    BY <1>4, <2>1, <2>2
<1>10. CASE EmptyFrame \/ CloseFrame \/ EncodeTrailers
  <2>1. /\ pc = "encode" /\ pc' = "encode"
        /\ UNCHANGED <<response_busy, unsent>>
    BY <1>10 DEF EmptyFrame, CloseFrame, EncodeTrailers, InHeader, InPayload,
                 AtLastBuf
  <2>2. PICK data \in Seq(Nat), last_buf \in BOOLEAN :
          EncodeBlock(data, last_buf)
    BY <1>10, EncodedBlocks
  <2>3. PICK id \in Nat : Takes(id, data, last_buf)
    BY <2>2, EncodeBlockTakes DEF IInv
  <2>4. Passed = response_busy /\ Passed' = Passed
    BY <2>1 DEF Passed
  <2>5. ASSUME NEW i \in 1..sent
        PROVE  mem'[Passed[i]] = mem[Passed[i]]
    <3>1. i \in 1..Len(Passed)
      BY <1>1, <1>2, <1>3
    <3>2. Passed[i] \in 1..Len(mem) /\ Passed[i] # id
      <4>1. Passed[i] \in 1..Len(mem)
        BY <1>2, <3>1
      <4>2. ~Holds(Passed, id)
        BY <2>3, <2>4 DEF Takes
      <4>3. QED
        BY <3>1, <4>1, <4>2 DEF Holds
    <3>3. \A j \in 1..Len(mem) : j # id => mem'[j] = mem[j]
      BY <2>3 DEF Takes
    <3>4. QED
      BY <3>2, <3>3
  <2>6. QED
    BY <1>3, <2>1, <2>4, <2>5 DEF HeldInv
<1>11. CASE EndOfChain
  <2>1. /\ pc = "encode" /\ unsent' = unsent \o out
        /\ pc' = IF out = << >> THEN "recycle" ELSE "write"
        /\ UNCHANGED <<response_busy, out, mem>>
    BY <1>11 DEF EndOfChain, ctx
  <2>2. Passed = response_busy
    BY <2>1 DEF Passed
  <2>3. /\ Len(Passed') = Len(Passed) + Len(out)
        /\ \A i \in 1..Len(Passed) : Passed'[i] = Passed[i]
        /\ \A i \in 1..Len(out) : Passed'[Len(Passed) + i] = out[i]
    <3>1. CASE out = << >>
      <4>1. Passed' = response_busy /\ Len(out) = 0
        BY <2>1, <3>1 DEF Passed
      <4>2. QED
        BY <1>1, <2>2, <4>1
    <3>2. CASE out # << >>
      <4>1. Passed' = response_busy \o out
        BY <2>1, <3>2 DEF Passed
      <4>2. QED
        BY <1>1, <2>2, <4>1, ConcatFacts
    <3>3. QED
      BY <3>1, <3>2
  <2>4. /\ Len(unsent') = Len(unsent) + Len(out)
        /\ \A i \in 1..Len(unsent) : unsent'[i] = unsent[i]
        /\ \A i \in 1..Len(out) : unsent'[Len(unsent) + i] = out[i]
    BY <1>1, <2>1, ConcatFacts
  <2>5. sent' = sent
    BY <1>1, <1>2, <2>3, <2>4
  <2> HIDE DEF sent
  <2>6. ASSUME NEW i \in 1..Len(unsent')
        PROVE  unsent'[i] = Passed'[sent + i]
    <3>1. CASE i \in 1..Len(unsent)
      <4>1. sent + i \in 1..Len(Passed)
        BY <1>1, <1>2, <1>3, <3>1
      <4>2. QED
        BY <1>3, <2>3, <2>4, <3>1, <4>1
    <3>2. CASE i \notin 1..Len(unsent)
      <4>1. /\ i - Len(unsent) \in 1..Len(out)
            /\ i = Len(unsent) + (i - Len(unsent))
            /\ sent + i = Len(Passed) + (i - Len(unsent))
        BY <1>1, <1>2, <1>3, <2>4, <3>2
      <4>2. QED
        BY <2>3, <2>4, <4>1
    <3>3. QED
      BY <3>1, <3>2
  <2>7. ASSUME NEW i \in 1..sent
        PROVE  mem'[Passed'[i]].data = << >>
    <3>1. i \in 1..Len(Passed)
      BY <1>1, <1>2, <1>3
    <3>2. QED
      BY <1>3, <2>1, <2>3, <3>1
  <2>8. QED
    BY <1>3, <2>5, <2>6, <2>7 DEF HeldInv, sent
<1>12. CASE WriteReturns
  <2>1. /\ pc = "write" /\ pc' = "recycle"
        /\ response_busy' = response_busy \o out
        /\ UNCHANGED <<unsent, mem>>
    BY <1>12 DEF WriteReturns
  <2>2. Passed' = Passed
    BY <2>1 DEF Passed
  <2>3. QED
    BY <1>4, <2>1, <2>2
<1>13. CASE SendBlock
  <2> DEFINE id == Head(unsent)
  <2>1. /\ unsent # << >> /\ unsent' = Tail(unsent)
        /\ mem' = [mem EXCEPT ![id].data = << >>]
        /\ UNCHANGED <<pc, out, response_busy>>
    BY <1>13 DEF SendBlock, ctx
  <2>2. /\ id = unsent[1] /\ id \in 1..Len(mem)
        /\ Len(unsent) >= 1
        /\ Len(unsent') = Len(unsent) - 1
        /\ \A i \in 1..(Len(unsent) - 1) : unsent'[i] = unsent[i + 1]
    BY <1>1, <2>1, TailFacts
  <2>3. /\ mem'[id].data = << >>
        /\ \A j \in 1..Len(mem) : j # id => mem'[j] = mem[j]
    <3>1. mem[id] \in Buffers
      BY <1>1, <2>2
    <3> DEFINE new == [mem[id] EXCEPT !.data = << >>]
    <3>2. new \in Buffers /\ new.cap = mem[id].cap /\ new.data = << >>
      BY <3>1, BufferEmptied
    <3>3. mem' = [mem EXCEPT ![id] = new]
      BY <2>1
    <3> HIDE DEF new
    <3>4. /\ Len(mem') = Len(mem)
          /\ mem'[id] = new
          /\ \A i \in 1..Len(mem) : i # id => mem'[i] = mem[i]
      BY <1>1, <2>2, <3>2, <3>3, ExceptSeq
    <3>5. QED
      BY <3>2, <3>4
  <2>4. Passed' = Passed
    BY <2>1 DEF Passed
  <2>5. sent' = sent + 1
    BY <1>1, <1>2, <2>2, <2>4
  <2> HIDE DEF sent, id
  <2>6. ASSUME NEW i \in 1..Len(unsent')
        PROVE  unsent'[i] = Passed'[sent + 1 + i]
    <3>1. /\ i \in 1..(Len(unsent) - 1) /\ i + 1 \in 1..Len(unsent)
          /\ sent + 1 + i = sent + (i + 1)
      BY <1>1, <1>3, <2>2
    <3>2. QED
      BY <1>3, <2>2, <2>4, <3>1
  <2>7. ASSUME NEW i \in 1..(sent + 1)
        PROVE  mem'[Passed'[i]].data = << >>
    <3>1. Passed[i] \in 1..Len(mem)
      <4>1. i \in 1..Len(Passed)
        BY <1>1, <1>2, <1>3, <2>2
      <4>2. QED
        BY <1>2, <4>1
    <3>2. Passed[i] = id \/ mem[Passed[i]].data = << >>
      <4>1. CASE i = sent + 1
        <5>1. 1 \in 1..Len(unsent)
          BY <1>1, <2>2
        <5>2. QED
          BY <1>3, <2>2, <4>1, <5>1
      <4>2. CASE i # sent + 1
        <5>1. i \in 1..sent
          BY <1>3, <4>2
        <5>2. QED
          BY <1>3, <5>1
      <4>3. QED
        BY <4>1, <4>2
    <3>3. QED
      BY <2>3, <2>4, <3>1, <3>2
  <2>8. sent + 1 >= 0
    BY <1>3
  <2>9. QED
    BY <2>5, <2>6, <2>7, <2>8 DEF HeldInv, sent
<1>14. CASE Recycle
  <2> DEFINE id == Head(response_busy)
  <2>1. /\ pc = "recycle" /\ pc' = "recycle"
        /\ response_busy # << >>
        /\ mem[id].data = << >>
        /\ response_busy' = Tail(response_busy)
        /\ UNCHANGED <<unsent, mem>>
    BY <1>14 DEF Recycle, Sent
  <2>2. Passed = response_busy /\ Passed' = Tail(Passed)
    BY <2>1 DEF Passed
  <2>3. /\ id = Passed[1]
        /\ Len(Passed) >= 1
        /\ Len(Passed') = Len(Passed) - 1
        /\ \A i \in 1..(Len(Passed) - 1) : Passed'[i] = Passed[i + 1]
    BY <1>1, <2>1, <2>2, TailFacts
  <2>4. sent # 0
    <3>1. SUFFICES ASSUME sent = 0
                   PROVE  FALSE
      OBVIOUS
    <3>2. 1 \in 1..Len(unsent)
      BY <1>1, <1>2, <1>3, <2>3, <3>1
    <3>3. unsent[1] = id
      <4>1. unsent[1] = Passed[sent + 1]
        BY <1>3, <3>2
      <4>2. sent + 1 = 1
        BY <3>1
      <4>3. QED
        BY <2>3, <4>1, <4>2
    <3>4. mem[unsent[1]].data # << >>
      BY <2>1, <3>2, UnsentNotEmpty
    <3>5. QED
      BY <2>1, <3>3, <3>4
  <2>5. sent' = sent - 1
    BY <1>1, <1>2, <2>1, <2>3
  <2> HIDE DEF sent, id
  <2>6. ASSUME NEW i \in 1..Len(unsent')
        PROVE  unsent'[i] = Passed'[sent - 1 + i]
    <3>1. i \in 1..Len(unsent)
      BY <2>1
    <3>2. /\ sent - 1 + i \in 1..(Len(Passed) - 1)
          /\ (sent - 1 + i) + 1 = sent + i
      BY <1>1, <1>2, <1>3, <2>4, <3>1
    <3>3. Passed'[sent - 1 + i] = Passed[sent + i]
      BY <2>3, <3>2
    <3>4. QED
      BY <1>3, <2>1, <3>1, <3>3
  <2>7. ASSUME NEW i \in 1..(sent - 1)
        PROVE  mem'[Passed'[i]].data = << >>
    <3>1. i \in 1..(Len(Passed) - 1) /\ i + 1 \in 1..sent
      BY <1>1, <1>2, <1>3
    <3>2. QED
      BY <1>3, <2>1, <2>3, <3>1
  <2>8. sent - 1 >= 0
    BY <1>3, <2>4
  <2>9. QED
    BY <2>5, <2>6, <2>7, <2>8 DEF HeldInv, sent
<1>15. QED
  BY <1>6, <1>7, <1>8, <1>9, <1>10, <1>11, <1>12, <1>13, <1>14
     DEF Next, Encode, Pass

(* M5: when the filter returns, the busy chain is r->out (lines 1187 to 1207):
   it pins no buffer that the client has taken, and gives up none that it
   has not. *)
THEOREM BusyIsUnsent == Spec => HoldsOnlyUnsent
<1>1. Init => HeldInv
  <2> SUFFICES ASSUME Init
               PROVE  HeldInv
    OBVIOUS
  <2>1. Len(Passed) = 0 /\ Len(unsent) = 0
    BY DEF Init, Passed
  <2>2. QED
    BY <2>1 DEF HeldInv
<1>2. ASSUME IInv, HeldInv, [Next]_vars, pc = "recycle", pc' = "idle"
      PROVE  response_busy' = unsent'
  <2>1. Return
    <3>1. CASE \E c \in Chains : BodyFilter(c)
      BY <1>2, <3>1 DEF BodyFilter
    <3>2. CASE UpstreamFails \/ Encode \/ SendBlock \/ Close \/ Cancel \/ Over
      BY <1>2, <3>2
         DEF UpstreamFails, Encode, ReadHeader, RejectFrame, OpenFrame,
             EmptyFrame, ReadPayload, CloseFrame, NextBuffer, RejectEnd,
             EncodeTrailers, AllocationFails, InHeader, InPayload, AtLastBuf,
             SendBlock, Close, Cancel, Over, vars
    <3>3. CASE EndOfChain \/ WriteReturns \/ Recycle \/ UNCHANGED vars
      BY <1>2, <3>3 DEF EndOfChain, WriteReturns, Recycle, vars
    <3>4. QED
      BY <1>2, <3>1, <3>2, <3>3 DEF Next, Pass
  <2>2. /\ response_busy # << >> => mem[Head(response_busy)].data # << >>
        /\ response_busy' = response_busy /\ unsent' = unsent
    BY <2>1 DEF Return, Sent, ctx
  <2>3. /\ response_busy \in Seq(1..Len(mem)) /\ unsent \in Seq(1..Len(mem))
        /\ Len(response_busy) \in Nat /\ Len(unsent) \in Nat
    BY <1>2 DEF IInv, TypeOK
  <2>4. Passed = response_busy
    BY <1>2 DEF Passed
  <2> DEFINE sent == Len(response_busy) - Len(unsent)
  <2>5. /\ sent >= 0
        /\ \A i \in 1..Len(unsent) : unsent[i] = response_busy[sent + i]
        /\ \A i \in 1..sent : mem[response_busy[i]].data = << >>
    BY <1>2, <2>4 DEF HeldInv
  <2>6. sent = 0
    <3>1. SUFFICES ASSUME sent # 0
                   PROVE  FALSE
      OBVIOUS
    <3>2. 1 \in 1..sent /\ response_busy # << >>
      BY <2>3, <2>5, <3>1
    <3>3. Head(response_busy) = response_busy[1]
      BY <2>3, <3>2, TailFacts
    <3>4. QED
      BY <2>2, <2>5, <3>2, <3>3
  <2>7. Len(response_busy) = Len(unsent)
    BY <2>3, <2>6
  <2>8. \A i \in 1..Len(unsent) : unsent[i] = response_busy[i]
    <3>1. ASSUME NEW i \in 1..Len(unsent)
          PROVE  unsent[i] = response_busy[i]
      <4>1. sent + i = i
        BY <2>6
      <4>2. QED
        BY <2>5, <4>1
    <3>2. QED
      BY <3>1
  <2>9. response_busy = unsent
    BY <2>3, <2>7, <2>8, SeqEqual
  <2>10. QED
    BY <2>2, <2>9
<1>3. IInv /\ HeldInv /\ [Next]_vars =>
        [pc = "recycle" /\ pc' = "idle" => response_busy' = unsent']_vars
  BY <1>2
<1>4. QED
  BY <1>1, <1>3, InitIInv, NextIInv, NextHeldInv, PTL
     DEF Spec, HoldsOnlyUnsent

-----------------------------------------------------------------------------
(* Storage stays proportional to what the limits allow.                    *)

(* Storage that was reserved for at most n bytes. *)
Limit(n) == IF n <= InitialCapacity THEN InitialCapacity ELSE 2 * n
WithinLimit(cap, n) == cap # 0 => InitialCapacity <= cap /\ cap <= Limit(n)

(* Doubling stops at the first rung that is large enough, and the one below
   was too small. *)
LEMMA GrownBounded ==
  ASSUME NEW current \in Nat, NEW required \in Nat, NEW largest \in Nat,
         required <= largest, WithinLimit(current, largest)
  PROVE  WithinLimit(Grown(current, required), largest)
<1> DEFINE base  == IF current = 0 THEN InitialCapacity ELSE current
           rungs == {c \in Ladder(base) : c >= required}
           least == CHOOSE c \in rungs : \A d \in rungs : c <= d
<1>1. /\ InitialCapacity \in Nat /\ InitialCapacity >= 1
      /\ MaxSize \in Nat /\ Width \in Nat
      /\ base \in Nat /\ base >= InitialCapacity
      /\ base <= Limit(largest)
  BY CapacityAssumption DEF WithinLimit, Limit
<1>2. Grown(current, required) =
        IF current >= required THEN current
        ELSE IF rungs = {} THEN required ELSE least
  BY DEF Grown
<1>3. CASE current >= required
  BY <1>2, <1>3
<1>4. CASE ~ (current >= required) /\ rungs = {}
  <2>1. required > InitialCapacity
    <3>1. SUFFICES ASSUME required <= InitialCapacity
                   PROVE  FALSE
      BY <1>1
    <3>2. current = 0
      BY <1>1, <1>4, <3>1 DEF WithinLimit
    <3>3. base = InitialCapacity /\ base \in base..MaxSize
      BY <1>1, <3>2, CapacityAssumption
    <3>4. 0 \in 0..Width /\ base = base * 2^0
      BY <1>1, PowersOfTwo
    <3>5. base \in rungs
      BY <3>1, <3>3, <3>4 DEF Ladder
    <3>6. QED
      BY <1>4, <3>5
  <2>2. Grown(current, required) = required
    BY <1>2, <1>4
  <2>3. Limit(largest) = 2 * largest
    BY <1>1, <2>1 DEF Limit
  <2>4. QED
    BY <1>1, <2>1, <2>2, <2>3 DEF WithinLimit
<1>5. CASE ~ (current >= required) /\ rungs # {}
  <2>1. /\ least \in rungs
        /\ \A d \in rungs : least <= d
    <3>1. rungs \subseteq Nat
      BY <1>1 DEF Ladder
    <3> HIDE DEF rungs
    <3>2. \E c \in rungs : \A d \in rungs : c <= d
      BY <1>5, <3>1, LeastElement
    <3>3. QED
      BY <3>2
  <2>2. Grown(current, required) = least
    BY <1>2, <1>5
  <2> HIDE DEF least
  <2>3. PICK k \in 0..Width : least = base * 2^k
    BY <2>1 DEF Ladder
  <2>4. least \in Nat /\ base <= least /\ least <= MaxSize
    BY <1>1, <2>1 DEF Ladder
  <2>5. CASE k = 0
    <3>1. least = base
      BY <1>1, <2>3, <2>5, PowersOfTwo
    <3>2. QED
      BY <1>1, <2>2, <3>1 DEF WithinLimit
  <2>6. CASE k # 0
    <3> DEFINE half == base * 2^(k - 1)
    <3>1. /\ k - 1 \in 0..Width /\ (k - 1) + 1 = k
          /\ 2^(k - 1) \in Nat
      <4>1. k - 1 \in 0..Width /\ (k - 1) + 1 = k
        BY <1>1, <2>6
      <4>2. QED
        BY <4>1, PowersOfTwo
    <3>2. 2^k = 2 * 2^(k - 1)
      BY <3>1, PowersOfTwo
    <3>3. ASSUME NEW p \in Nat, least = base * (2 * p)
          PROVE  least = 2 * (base * p) /\ base * p \in Nat
      BY <1>1, <3>3
    <3>4. least = 2 * half /\ half \in Nat
      BY <2>3, <3>1, <3>2, <3>3
    <3> HIDE DEF half
    <3>5. base <= half
      <4>1. ASSUME NEW p \in Nat, half = base * p
            PROVE  base <= half
        <5>1. p # 0
          <6>1. SUFFICES ASSUME p = 0
                         PROVE  FALSE
            OBVIOUS
          <6>2. half = 0
            BY <1>1, <4>1, <6>1
          <6>3. QED
            BY <1>1, <2>4, <3>4, <6>2
        <5>2. QED
          BY <1>1, <4>1, <5>1
      <4>2. QED
        BY <3>1, <4>1 DEF half
    <3>6. half < least
      BY <1>1, <3>4, <3>5
    <3>7. half < required
      <4>1. SUFFICES ASSUME half >= required
                     PROVE  FALSE
        BY <3>4
      <4>2. half \in base..MaxSize
        BY <1>1, <2>4, <3>4, <3>5, <3>6
      <4>3. half \in rungs
        BY <3>1, <4>1, <4>2 DEF Ladder, half
      <4>4. least <= half
        BY <2>1, <4>3
      <4>5. QED
        BY <2>4, <3>4, <3>6, <4>4
    <3>8. Limit(largest) = 2 * largest
      BY <1>1, <3>4, <3>5, <3>7 DEF Limit
    <3>9. least <= 2 * largest
      BY <3>4, <3>7
    <3>10. QED
      BY <1>1, <2>2, <2>4, <3>8, <3>9 DEF WithinLimit
  <2>7. QED
    BY <2>5, <2>6
<1>6. QED
  BY <1>3, <1>4, <1>5

CapInv ==
  /\ WithinLimit(response_frame_buf.cap, HeaderSize + MaxFrameSize)
  /\ \A i \in 1..Len(mem) :
       WithinLimit(mem[i].cap, EncodedLength(HeaderSize + MaxFrameSize))

LEMMA EncodeBlockBounded ==
  ASSUME IInv, CapInv, NEW data \in Seq(Nat), NEW last_buf \in BOOLEAN,
         EncodeBlock(data, last_buf), Len(data) <= HeaderSize + MaxFrameSize
  PROVE  \A i \in 1..Len(mem') :
           WithinLimit(mem'[i].cap, EncodedLength(HeaderSize + MaxFrameSize))
<1> DEFINE most == EncodedLength(HeaderSize + MaxFrameSize)
           need == EncodedLength(Len(data))
           Blk(c) == [data |-> data, last_buf |-> last_buf,
                      cap |-> Grown(c, need)]
<1>1. /\ mem \in Seq(Buffers) /\ Len(mem) \in Nat
      /\ response_free \in Seq(1..Len(mem))
  BY DEF IInv, TypeOK
<1>2. most \in Nat /\ need \in Nat /\ need <= most
  BY HeaderSizeAssumption, TextAssumption DEF EncodedLength
<1> HIDE DEF most, need
<1>3. ASSUME NEW c \in Nat, WithinLimit(c, most)
      PROVE  WithinLimit(Blk(c).cap, most) /\ Blk(c) \in Buffers
  <2>1. WithinLimit(Grown(c, need), most)
    BY <1>2, <1>3, GrownBounded
  <2>2. Grown(c, need) \in Nat
    BY <1>2, GrownHolds
  <2>3. Blk(c) \in Buffers
    BY <2>2 DEF Buffers
  <2>4. QED
    BY <2>1, <2>3
<1>4. \A i \in 1..Len(mem) : WithinLimit(mem[i].cap, most)
                               /\ mem[i].cap \in Nat
  <2>1. \A i \in 1..Len(mem) : mem[i] \in Buffers
    BY <1>1
  <2>2. QED
    BY <2>1 DEF CapInv, most, Buffers
<1>5. CASE response_free = << >>
  <2>1. mem' = Append(mem, Blk(0))
    BY <1>5 DEF EncodeBlock, need
  <2>2. WithinLimit(Blk(0).cap, most) /\ Blk(0) \in Buffers
    <3>1. WithinLimit(0, most)
      BY DEF WithinLimit
    <3>2. QED
      BY <1>3, <3>1
  <2> HIDE DEF Blk
  <2>3. /\ Len(mem') = Len(mem) + 1
        /\ mem'[Len(mem) + 1] = Blk(0)
        /\ \A i \in 1..Len(mem) : mem'[i] = mem[i]
    BY <1>1, <2>1, <2>2, AppendProperties
  <2>4. ASSUME NEW i \in 1..Len(mem')
        PROVE  WithinLimit(mem'[i].cap, most)
    <3>1. i \in 1..Len(mem) \/ i = Len(mem) + 1
      BY <1>1, <2>3
    <3>2. QED
      BY <1>4, <2>2, <2>3, <3>1
  <2>5. QED
    BY <2>4 DEF most
<1>6. CASE response_free # << >>
  <2> DEFINE id == Head(response_free)
  <2>1. /\ mem' = [mem EXCEPT ![id] = Blk(mem[id].cap)]
        /\ id \in 1..Len(mem)
    BY <1>1, <1>6, TailFacts DEF EncodeBlock, need
  <2> HIDE DEF id
  <2>2. /\ WithinLimit(Blk(mem[id].cap).cap, most)
        /\ Blk(mem[id].cap) \in Buffers
    BY <1>3, <1>4, <2>1
  <2> HIDE DEF Blk
  <2>3. /\ Len(mem') = Len(mem)
        /\ mem'[id] = Blk(mem[id].cap)
        /\ \A i \in 1..Len(mem) : i # id => mem'[i] = mem[i]
    BY <1>1, <2>1, <2>2, ExceptSeq
  <2>4. \A i \in 1..Len(mem') : WithinLimit(mem'[i].cap, most)
    BY <1>4, <2>2, <2>3
  <2>5. QED
    BY <2>4 DEF most
<1>7. QED
  BY <1>5, <1>6

LEMMA NextCapInv == IInv /\ CapInv /\ [Next]_vars => CapInv'
<1> SUFFICES ASSUME IInv, CapInv, [Next]_vars
             PROVE  CapInv'
  OBVIOUS
<1> DEFINE largest == HeaderSize + MaxFrameSize
<1>1. /\ mem \in Seq(Buffers)
      /\ unsent \in Seq(1..Len(mem))
      /\ response_frame_buf \in [data : Seq(Nat), cap : Nat]
      /\ HeaderSize \in Nat /\ MaxFrameSize \in Nat
  BY HeaderSizeAssumption, TextAssumption DEF IInv, TypeOK
<1>2. ASSUME Parsed \in Parsers, Parsed.length <= MaxFrameSize
      PROVE  WithinLimit(PreparedFrame.cap, largest)
  <2>1. /\ HeaderSize + Parsed.length \in Nat /\ largest \in Nat
        /\ HeaderSize + Parsed.length <= largest
    <3>1. Parsed.length \in Nat
      BY <1>2 DEF Parsers
    <3>2. QED
      BY <1>1, <1>2, <3>1
  <2>2. WithinLimit(response_frame_buf.cap, largest)
    BY DEF CapInv
  <2> HIDE DEF largest
  <2>3. WithinLimit(Grown(response_frame_buf.cap, HeaderSize + Parsed.length),
                    largest)
    BY <1>1, <2>1, <2>2, GrownBounded
  <2>4. QED
    BY <2>3 DEF PreparedFrame
<1>3. ASSUME UNCHANGED mem,
             response_frame_buf'.cap = response_frame_buf.cap
      PROVE  CapInv'
  BY <1>3 DEF CapInv
<1>4. ASSUME NEW c \in Chains, BodyFilter(c)
      PROVE  CapInv'
  BY <1>3, <1>4 DEF BodyFilter, ctx
<1>5. CASE OpenFrame
  <2>1. InHeader /\ Parsed.length <= MaxFrameSize /\ UNCHANGED mem
        /\ response_frame_buf' = PreparedFrame
    BY <1>5 DEF OpenFrame
  <2>2. Parsed \in Parsers
    BY <2>1, HeaderStep
  <2>3. QED
    BY <1>2, <2>1, <2>2 DEF CapInv
<1>6. CASE EmptyFrame \/ CloseFrame \/ EncodeTrailers
  <2>1. PICK data \in Seq(Nat), last_buf \in BOOLEAN :
          /\ EncodeBlock(data, last_buf)
          /\ Len(data) <= HeaderSize + MaxFrameSize
    BY <1>6, EncodedBlocks
  <2>2. \A i \in 1..Len(mem') :
          WithinLimit(mem'[i].cap, EncodedLength(HeaderSize + MaxFrameSize))
    BY <2>1, EncodeBlockBounded
  <2>3. WithinLimit(response_frame_buf'.cap, largest)
    <3>1. CASE EmptyFrame
      <4>1. InHeader /\ Parsed.length <= MaxFrameSize
            /\ response_frame_buf' = [PreparedFrame EXCEPT !.data = << >>]
        BY <3>1 DEF EmptyFrame
      <4>2. Parsed \in Parsers
        BY <4>1, HeaderStep
      <4>3. response_frame_buf'.cap = PreparedFrame.cap
        BY <4>1 DEF PreparedFrame
      <4>4. QED
        BY <1>2, <4>1, <4>2, <4>3
    <3>2. CASE CloseFrame
      <4>1. response_frame_buf'.cap = response_frame_buf.cap
        BY <1>1, <3>2 DEF CloseFrame
      <4>2. QED
        BY <4>1 DEF CapInv
    <3>3. CASE EncodeTrailers
      BY <3>3 DEF EncodeTrailers, CapInv
    <3>4. QED
      BY <1>6, <3>1, <3>2, <3>3
  <2>4. QED
    BY <2>2, <2>3 DEF CapInv
<1>7. CASE ReadPayload
  <2>1. UNCHANGED mem /\ response_frame_buf'.cap = response_frame_buf.cap
    BY <1>1, <1>7 DEF ReadPayload
  <2>2. QED
    BY <1>3, <2>1
<1>8. CASE SendBlock
  <2> DEFINE id == Head(unsent)
  <2>1. /\ unsent # << >>
        /\ mem' = [mem EXCEPT ![id].data = << >>]
        /\ UNCHANGED response_frame_buf
    BY <1>8 DEF SendBlock, ctx
  <2>2. id \in 1..Len(mem)
    BY <1>1, <2>1, TailFacts
  <2> HIDE DEF id
  <2>3. Len(mem') = Len(mem)
        /\ \A i \in 1..Len(mem) : mem'[i].cap = mem[i].cap
    <3>1. mem[id] \in Buffers
      BY <1>1, <2>2
    <3> DEFINE new == [mem[id] EXCEPT !.data = << >>]
    <3>2. new \in Buffers /\ new.cap = mem[id].cap /\ new.data = << >>
      BY <3>1, BufferEmptied
    <3>3. mem' = [mem EXCEPT ![id] = new]
      BY <2>1
    <3> HIDE DEF new
    <3>4. /\ Len(mem') = Len(mem)
          /\ mem'[id] = new
          /\ \A i \in 1..Len(mem) : i # id => mem'[i] = mem[i]
      BY <1>1, <2>2, <3>2, <3>3, ExceptSeq
    <3>5. QED
      BY <3>2, <3>4
  <2>4. QED
    BY <2>1, <2>3 DEF CapInv
<1>9. CASE \/ ReadHeader \/ RejectFrame \/ NextBuffer \/ RejectEnd
           \/ AllocationFails \/ Pass \/ UpstreamFails \/ Close \/ Cancel
           \/ Over \/ UNCHANGED vars
  <2>1. UNCHANGED <<mem, response_frame_buf>>
    BY <1>9 DEF ReadHeader, RejectFrame, NextBuffer, RejectEnd,
                AllocationFails, Pass, EndOfChain, WriteReturns, Recycle,
                Return, UpstreamFails, Close, Cancel, Over, vars, ctx
  <2>2. QED
    BY <1>3, <2>1
<1>10. QED
  BY <1>4, <1>5, <1>6, <1>7, <1>8, <1>9 DEF Next, Encode

(* No storage grows beyond twice what the configured frame size needs (lines
   866-932 and 991-1018): a length field over the limit reserves nothing. *)
THEOREM StorageStaysBounded == Spec => []AllocationBounded
<1>1. Init => CapInv
  BY DEF Init, CapInv, WithinLimit
<1>2. IInv /\ CapInv => AllocationBounded
  <2> SUFFICES ASSUME IInv, CapInv
               PROVE  AllocationBounded
    OBVIOUS
  <2> DEFINE largest == HeaderSize + MaxFrameSize
  <2>1. ASSUME NEW cap \in Nat, NEW n \in Nat, WithinLimit(cap, n)
        PROVE  cap <= IF n <= InitialCapacity THEN InitialCapacity ELSE 2 * n
    <3>1. InitialCapacity \in Nat
      BY CapacityAssumption
    <3>2. QED
      BY <2>1, <3>1 DEF WithinLimit, Limit
  <2>2. largest \in Nat /\ EncodedLength(largest) \in Nat
    BY HeaderSizeAssumption, TextAssumption, EncodedLengthNat
  <2>3. /\ response_frame_buf.cap \in Nat
        /\ \A i \in 1..Len(mem) : mem[i].cap \in Nat
    <3>1. /\ mem \in Seq(Buffers)
          /\ response_frame_buf \in [data : Seq(Nat), cap : Nat]
      BY DEF IInv, TypeOK
    <3>2. \A i \in 1..Len(mem) : mem[i] \in Buffers
      BY <3>1
    <3>3. QED
      BY <3>1, <3>2 DEF Buffers
  <2>4. /\ WithinLimit(response_frame_buf.cap, largest)
        /\ \A i \in 1..Len(mem) :
             WithinLimit(mem[i].cap, EncodedLength(largest))
    BY DEF CapInv
  <2> HIDE DEF largest
  <2>5. QED
    BY <2>1, <2>2, <2>3, <2>4 DEF AllocationBounded, largest
<1>3. QED
  BY <1>1, <1>2, SpecIInv, InitIInv, NextIInv, NextCapInv, PTL DEF Spec

-----------------------------------------------------------------------------
(* The loops end.                                                          *)

(* Where the loop finds work: a turn never meets the state that the code
   reports as invalid (lines 1036-1042), a frame that wants no more bytes or
   has no storage. *)
TurnInv == pc = "encode" /\ in # << >> /\ SrcLen # 0 => InHeader \/ InPayload

(* A turn over a head that is not empty takes a byte. *)
LEMMA TakesSome ==
  ASSUME IInv, pc = "encode", in # << >>, SrcLen # 0
  PROVE  /\ InHeader \/ InPayload
         /\ Taken \in Nat /\ 1 <= Taken /\ Taken <= SrcLen
<1> DEFINE p == response_frame
<1>1. ParserAt(Made + 1) /\ SrcLen \in Nat
  BY HeadFacts
<1>2. /\ p.length \in Nat /\ p.payload_seen \in Nat
      /\ Len(p.header) \in Nat /\ p.header_ready \in BOOLEAN
      /\ response_frame_buf.cap \in Nat
  BY DEF IInv, TypeOK, Parsers
<1>3. HeaderSize \in Nat /\ HeaderSize # 0
  BY HeaderSizeAssumption
<1>4. CASE ~p.header_ready
  <2>1. Len(p.header) < HeaderSize
    BY <1>1, <1>4 DEF ParserAt
  <2>2. Taken = Lesser(SrcLen, HeaderSize - Len(p.header))
    BY <1>4 DEF Taken, Consumes
  <2>3. Taken \in Nat /\ 1 <= Taken /\ Taken <= SrcLen
    BY <1>1, <1>2, <1>3, <2>1, <2>2 DEF Lesser
  <2>4. QED
    BY <1>4, <2>3 DEF InHeader
<1>5. CASE p.header_ready
  <2>1. /\ p.payload_seen < p.length
        /\ HeaderSize + p.length <= response_frame_buf.cap
    BY <1>1, <1>5 DEF ParserAt
  <2>2. Taken = Lesser(SrcLen, p.length - p.payload_seen)
    BY <1>5 DEF Taken, Consumes
  <2>3. Taken \in Nat /\ 1 <= Taken /\ Taken <= SrcLen
    BY <1>1, <1>2, <2>1, <2>2 DEF Lesser
  <2>4. response_frame_buf.cap # 0 /\ Taken # 0
    BY <1>2, <1>3, <2>1, <2>3
  <2>5. QED
    BY <1>5, <2>3, <2>4 DEF InPayload
<1>6. QED
  BY <1>2, <1>4, <1>5

(* The loop over a buffer always finds a turn to take, and every turn takes
   at least one byte (lines 980-1066), for every stream, limit and way of
   cutting: the code's report of an invalid frame state is never made. *)
THEOREM EveryTurnTakesBytes == Spec => []TurnInv
<1>1. IInv => TurnInv
  BY TakesSome DEF TurnInv
<1>2. QED
  BY <1>1, SpecIInv, PTL

(* Where the chain of this call ends, and how many calls may follow it. *)
Reached == IF pc = "encode" /\ in # << >> THEN in[Len(in)].end ELSE recv

CallsLeft ==
  IF status = "open"
  THEN (stream.eof - Reached) + IF upstream_done THEN 0 ELSE 1
  ELSE 0

(* A call drops MaxBufs buffers at most, at three turns each: one that
   encodes a block makes it send that block and recycle its buffer. *)
CallCost == 3 * MaxBufs + 4

ChainLeft  == IF pc = "encode" THEN 3 * Len(in) + Len(out) ELSE 0
BlocksLeft == Len(unsent) + Len(response_busy) + Len(out)
PhaseLeft  == [encode |-> 3, write |-> 2, recycle |-> 1, idle |-> 0][pc]
StatusLeft == IF status = "open" THEN 2
              ELSE IF status = "upstream_failed" THEN 1 ELSE 0

StepsLeft == 3 * (stream.eof - recv) + ChainLeft + BlocksLeft
               + PhaseLeft + StatusLeft

Rank == CallCost * CallsLeft + StepsLeft

LEMMA Lengths ==
  ASSUME IInv
  PROVE  /\ Len(in) \in Nat /\ Len(out) \in Nat /\ Len(unsent) \in Nat
         /\ Len(response_busy) \in Nat /\ recv \in Nat /\ stream.eof \in Nat
         /\ recv <= stream.eof /\ MaxBufs \in Nat
         /\ upstream_done \in BOOLEAN
         /\ pc \in {"idle", "encode", "write", "recycle"}
         /\ StatusLeft \in Nat
<1>1. /\ Len(in) \in Nat /\ Len(out) \in Nat /\ Len(unsent) \in Nat
      /\ Len(response_busy) \in Nat /\ stream \in Streams
      /\ upstream_done \in BOOLEAN
      /\ pc \in {"idle", "encode", "write", "recycle"}
  BY DEF IInv, TypeOK
<1>2. stream.eof \in Nat /\ MaxBufs \in Nat
  BY <1>1, StreamFacts, TextAssumption
<1>3. recv \in 0..stream.eof
  BY DEF IInv, TypeOK
<1>4. recv \in Nat /\ recv <= stream.eof
  BY <1>2, <1>3
<1>5. StatusLeft \in Nat
  BY DEF StatusLeft
<1>6. QED
  BY <1>1, <1>2, <1>4, <1>5

LEMMA ReachedFacts ==
  ASSUME IInv
  PROVE  Reached \in Nat /\ recv <= Reached /\ Reached <= stream.eof
<1>1. CASE pc = "encode" /\ in # << >>
  <2>1. in \in Seq(NativeBufs) /\ Len(in) \in 1..Len(in)
    <3>1. in \in Seq(NativeBufs) /\ in # << >>
      BY <1>1 DEF IInv, TypeOK
    <3>2. Len(in) \in Nat /\ Len(in) >= 1
      BY <3>1, TailFacts
    <3>3. QED
      BY <3>1, <3>2
  <2>2. /\ in[Len(in)].end \in Nat
        /\ recv <= in[Len(in)].end /\ in[Len(in)].end <= stream.eof
    <3>1. in[Len(in)] \in NativeBufs
      BY <2>1
    <3>2. recv <= in[Len(in)].end /\ in[Len(in)].end <= stream.eof
      BY <1>1, <2>1 DEF IInv, CallInv
    <3>3. QED
      BY <3>1, <3>2 DEF NativeBufs
  <2>3. QED
    BY <1>1, <2>2 DEF Reached
<1>2. CASE ~(pc = "encode" /\ in # << >>)
  BY <1>2, Lengths DEF Reached
<1>3. QED
  BY <1>1, <1>2

PartsInv ==
  /\ CallCost \in Nat /\ CallsLeft \in Nat /\ ChainLeft \in Nat
  /\ BlocksLeft \in Nat /\ PhaseLeft \in Nat /\ StatusLeft \in Nat
  /\ StepsLeft \in Nat

LEMMA PartsFacts == IInv => PartsInv
<1> SUFFICES ASSUME IInv
             PROVE  PartsInv
  OBVIOUS
<1>1. CallCost \in Nat /\ BlocksLeft \in Nat /\ StatusLeft \in Nat
  BY Lengths DEF CallCost, BlocksLeft
<1>2. CallsLeft \in Nat
  BY Lengths, ReachedFacts DEF CallsLeft
<1>3. ChainLeft \in Nat
  BY Lengths DEF ChainLeft
<1>4. PhaseLeft \in Nat
  BY Lengths DEF PhaseLeft
<1>5. stream.eof - recv \in Nat
  BY Lengths
<1>6. StepsLeft \in Nat
  BY <1>1, <1>3, <1>4, <1>5 DEF StepsLeft
<1>7. QED
  BY <1>1, <1>2, <1>3, <1>4, <1>6 DEF PartsInv

(* A product grows with its second factor. *)
LEMMA ProductFacts ==
  ASSUME NEW k \in Nat, NEW x \in Nat, NEW y \in Nat
  PROVE  /\ k * x \in Nat
         /\ x <= y => k * x <= k * y
         /\ x + 1 <= y => k * x + k <= k * y
<1>1. \A a, b \in Nat : a * b \in Nat
  OBVIOUS
<1>2. ASSUME NEW z \in Nat, NEW d \in Nat
      PROVE  k * (z + d) = k * z + k * d
  OBVIOUS
<1>3. ASSUME x <= y
      PROVE  k * x <= k * y
  <2>1. y - x \in Nat /\ y = x + (y - x)
    BY <1>3
  <2>2. k * y = k * x + k * (y - x)
    BY <1>2, <2>1
  <2>3. k * (y - x) \in Nat /\ k * x \in Nat
    BY <1>1, <2>1
  <2>4. ASSUME NEW a \in Nat, NEW b \in Nat
        PROVE  a <= a + b
    OBVIOUS
  <2>5. QED
    BY <2>2, <2>3, <2>4
<1>4. ASSUME x + 1 <= y
      PROVE  k * x + k <= k * y
  <2>1. y - (x + 1) \in Nat /\ y = (x + 1) + (y - (x + 1)) /\ x + 1 \in Nat
    BY <1>4
  <2>2. k * y = k * (x + 1) + k * (y - (x + 1))
    BY <1>2, <2>1
  <2>3. k * (x + 1) = k * x + k
    <3>1. k * (x + 1) = k * x + k * 1
      BY <1>2
    <3>2. k * 1 = k
      OBVIOUS
    <3>3. QED
      BY <3>1, <3>2
  <2>4. k * (y - (x + 1)) \in Nat /\ k * x + k \in Nat
    BY <1>1, <2>1
  <2>5. ASSUME NEW a \in Nat, NEW b \in Nat
        PROVE  a <= a + b
    OBVIOUS
  <2>6. QED
    BY <2>2, <2>3, <2>4, <2>5
<1>5. QED
  BY <1>1, <1>3, <1>4

(* Fewer steps and no more calls, or one call fewer at its cost. *)
LEMMA RankFalls ==
  ASSUME IInv, IInv',
         \/ CallsLeft' <= CallsLeft /\ StepsLeft' < StepsLeft
         \/ CallsLeft' + 1 <= CallsLeft /\ StepsLeft' < StepsLeft + CallCost
  PROVE  Rank \in Nat /\ Rank' \in Nat /\ Rank' < Rank
<1>1. /\ CallCost \in Nat /\ CallsLeft \in Nat /\ StepsLeft \in Nat
      /\ CallsLeft' \in Nat /\ StepsLeft' \in Nat /\ CallCost' = CallCost
  <2>1. IInv' => PartsInv'
    BY PartsFacts, PTL
  <2>2. QED
    BY <2>1, PartsFacts DEF PartsInv, CallCost
<1>2. ASSUME NEW k \in Nat, NEW c \in Nat, NEW d \in Nat,
             NEW s \in Nat, NEW t \in Nat,
             \/ d <= c /\ t < s
             \/ d + 1 <= c /\ t < s + k
      PROVE  k * c + s \in Nat /\ k * d + t \in Nat /\ k * d + t < k * c + s
  <2>1. k * c \in Nat /\ k * d \in Nat
    BY ProductFacts
  <2>2. ASSUME NEW a \in Nat, NEW b \in Nat,
               \/ b <= a /\ t < s
               \/ b + k <= a /\ t < s + k
        PROVE  a + s \in Nat /\ b + t \in Nat /\ b + t < a + s
    BY <2>2
  <2>3. \/ k * d <= k * c /\ t < s
        \/ k * d + k <= k * c /\ t < s + k
    BY <1>2, ProductFacts
  <2>4. QED
    BY ONLY <2>1, <2>2, <2>3, Zenon
<1>3. QED
  BY <1>1, <1>2 DEF Rank

(* The rank while the loop is running. *)
LEMMA LoopLeft ==
  ASSUME IInv, pc = "encode"
  PROVE  StepsLeft = 3 * (stream.eof - recv) + (3 * Len(in) + Len(out))
                       + (Len(unsent) + Len(response_busy) + Len(out))
                       + 3 + StatusLeft
  BY DEF StepsLeft, ChainLeft, BlocksLeft, PhaseLeft

(* A turn that takes bytes, and may complete a block. *)
LEMMA TakingFalls ==
  ASSUME IInv, IInv', pc = "encode", in # << >>,
         NEW n \in Nat, 1 <= n, n <= SrcLen, recv' = recv + n,
         NEW m \in {0, 1}, Len(out') = Len(out) + m,
         UNCHANGED <<stream, upstream_done, status, pc, in, response_busy,
                     unsent>>
  PROVE  Rank \in Nat /\ Rank' \in Nat /\ Rank' < Rank
<1>1. CallsLeft' = CallsLeft /\ CallsLeft \in Nat
  <2>1. Reached' = Reached
    BY DEF Reached
  <2>2. CallsLeft' = CallsLeft
    BY <2>1 DEF CallsLeft
  <2>3. QED
    BY <2>2, PartsFacts DEF PartsInv
<1>2. StepsLeft' = 3 * (stream.eof - (recv + n))
                     + (3 * Len(in) + (Len(out) + m))
                     + (Len(unsent) + Len(response_busy) + (Len(out) + m))
                     + 3 + StatusLeft
  BY DEF StepsLeft, ChainLeft, BlocksLeft, PhaseLeft, StatusLeft
<1>3. 3 * (stream.eof - (recv + n)) + (3 * Len(in) + (Len(out) + m))
        + (Len(unsent) + Len(response_busy) + (Len(out) + m))
        + 3 + StatusLeft
      < 3 * (stream.eof - recv) + (3 * Len(in) + Len(out))
          + (Len(unsent) + Len(response_busy) + Len(out))
          + 3 + StatusLeft
  <2>1. /\ stream.eof \in Nat /\ recv \in Nat /\ Len(in) \in Nat
        /\ Len(out) \in Nat /\ Len(unsent) \in Nat
        /\ Len(response_busy) \in Nat /\ StatusLeft \in Nat
    BY Lengths
  <2>2. ASSUME NEW e \in Nat, NEW r \in Nat, NEW i \in Nat, NEW o \in Nat,
               NEW u \in Nat, NEW b \in Nat, NEW s \in Nat
        PROVE  3 * (e - (r + n)) + (3 * i + (o + m)) + (u + b + (o + m)) + 3 + s
                 < 3 * (e - r) + (3 * i + o) + (u + b + o) + 3 + s
    OBVIOUS
  <2>3. QED
    BY ONLY <2>1, <2>2, Zenon
<1>4. StepsLeft' < StepsLeft
  BY <1>2, <1>3, LoopLeft, Zenon
<1>5. QED
  BY <1>1, <1>4, RankFalls

(* A turn that is through with a buffer, and may add the trailers. *)
LEMMA DroppingFalls ==
  ASSUME IInv, IInv', pc = "encode", in # << >>, SrcLen = 0,
         in' = Tail(in),
         NEW m \in {0, 1}, Len(out') = Len(out) + m,
         UNCHANGED <<stream, recv, upstream_done, status, pc, response_busy,
                     unsent>>
  PROVE  Rank \in Nat /\ Rank' \in Nat /\ Rank' < Rank
<1>1. /\ in \in Seq(NativeBufs) /\ Len(in) \in Nat /\ Len(in) >= 1
      /\ Len(in') = Len(in) - 1 /\ in' \in Seq(NativeBufs)
      /\ \A i \in 1..(Len(in) - 1) : in'[i] = in[i + 1]
      /\ in[1].end = recv /\ recv \in Nat
  <2>1. in \in Seq(NativeBufs) /\ Len(in) \in Nat
    BY DEF IInv, TypeOK
  <2>2. recv \in Nat /\ Head(in).end = recv + SrcLen /\ Head(in) = in[1]
    BY HeadFacts
  <2>3. QED
    BY <2>1, <2>2, TailFacts
<1>2. CallsLeft' = CallsLeft /\ CallsLeft \in Nat
  <2>1. Reached' = Reached
    <3>1. CASE Len(in) = 1
      <4>1. in' = << >>
        BY <1>1, <3>1
      <4>2. QED
        BY <1>1, <3>1, <4>1 DEF Reached
    <3>2. CASE Len(in) # 1
      <4>1. /\ Len(in') = Len(in) - 1 /\ Len(in) - 1 \in 1..(Len(in) - 1)
            /\ (Len(in) - 1) + 1 = Len(in)
        BY <1>1, <3>2
      <4>2. in' # << >> /\ in'[Len(in')] = in[Len(in)]
        <5>1. /\ in'[Len(in) - 1] = in[(Len(in) - 1) + 1]
              /\ Len(in') # 0
          BY <1>1, <4>1
        <5>2. Len(<< >>) = 0
          OBVIOUS
        <5>3. QED
          BY <4>1, <5>1, <5>2, Zenon
      <4>3. QED
        BY <4>2 DEF Reached
    <3>3. QED
      BY <3>1, <3>2
  <2>2. CallsLeft' = CallsLeft
    BY <2>1 DEF CallsLeft
  <2>3. QED
    BY <2>2, PartsFacts DEF PartsInv
<1>3. StepsLeft' = 3 * (stream.eof - recv)
                     + (3 * (Len(in) - 1) + (Len(out) + m))
                     + (Len(unsent) + Len(response_busy) + (Len(out) + m))
                     + 3 + StatusLeft
  BY <1>1 DEF StepsLeft, ChainLeft, BlocksLeft, PhaseLeft, StatusLeft
<1>4. 3 * (stream.eof - recv) + (3 * (Len(in) - 1) + (Len(out) + m))
        + (Len(unsent) + Len(response_busy) + (Len(out) + m))
        + 3 + StatusLeft
      < 3 * (stream.eof - recv) + (3 * Len(in) + Len(out))
          + (Len(unsent) + Len(response_busy) + Len(out))
          + 3 + StatusLeft
  <2>1. /\ stream.eof \in Nat /\ recv \in Nat /\ Len(in) \in Nat
        /\ Len(out) \in Nat /\ Len(unsent) \in Nat
        /\ Len(response_busy) \in Nat /\ StatusLeft \in Nat
    BY Lengths
  <2>2. ASSUME NEW e \in Nat, NEW r \in Nat, NEW i \in Nat, NEW o \in Nat,
               NEW u \in Nat, NEW b \in Nat, NEW s \in Nat
        PROVE  3 * (e - r) + (3 * (i - 1) + (o + m)) + (u + b + (o + m)) + 3 + s
                 < 3 * (e - r) + (3 * i + o) + (u + b + o) + 3 + s
    OBVIOUS
  <2>3. QED
    BY ONLY <2>1, <2>2, Zenon
<1>5. StepsLeft' < StepsLeft
  BY <1>3, <1>4, LoopLeft, Zenon
<1>6. QED
  BY <1>2, <1>5, RankFalls

(* Whatever ends the request, or the upstream's part of it. *)
LEMMA EndingFalls ==
  ASSUME IInv, IInv', recv <= recv', pc' = "idle", out' = << >>,
         status' # "open", StatusLeft' < StatusLeft,
         UNCHANGED <<stream, response_busy, unsent>>
  PROVE  Rank \in Nat /\ Rank' \in Nat /\ Rank' < Rank
<1>1. IInv' => PartsInv'
  BY PartsFacts, PTL
<1>2. CallsLeft' <= CallsLeft
  <2>1. CallsLeft' = 0
    BY DEF CallsLeft
  <2>2. CallsLeft \in Nat
    BY PartsFacts DEF PartsInv
  <2>3. QED
    BY <2>1, <2>2
<1>3. StatusLeft' \in Nat /\ recv' \in Nat
  <2>1. recv' \in 0..stream.eof
    BY DEF IInv, TypeOK
  <2>2. QED
    BY <1>1, <2>1, Lengths DEF PartsInv
<1>4. StepsLeft' = 3 * (stream.eof - recv') + 0
                     + (Len(unsent) + Len(response_busy) + 0)
                     + 0 + StatusLeft'
  <2>1. ChainLeft' = 0 /\ PhaseLeft' = 0
    BY DEF ChainLeft, PhaseLeft
  <2>2. BlocksLeft' = Len(unsent) + Len(response_busy) + 0
    <3>1. Len(out') = 0
      OBVIOUS
    <3>2. QED
      BY <3>1 DEF BlocksLeft
  <2>3. QED
    BY <2>1, <2>2 DEF StepsLeft
<1>5. StepsLeft = 3 * (stream.eof - recv) + ChainLeft
                    + (Len(unsent) + Len(response_busy) + Len(out))
                    + PhaseLeft + StatusLeft
  BY DEF StepsLeft, BlocksLeft
<1>6. ChainLeft \in Nat /\ PhaseLeft \in Nat /\ StatusLeft \in Nat
  BY PartsFacts DEF PartsInv
<1>7. ASSUME NEW t \in Nat, t < StatusLeft
      PROVE  3 * (stream.eof - recv') + 0
               + (Len(unsent) + Len(response_busy) + 0) + 0 + t
             < 3 * (stream.eof - recv) + ChainLeft
                 + (Len(unsent) + Len(response_busy) + Len(out))
                 + PhaseLeft + StatusLeft
  <2>1. 3 * (stream.eof - recv') <= 3 * (stream.eof - recv)
    BY <1>3, Lengths
  <2>2. ASSUME NEW x \in Int, NEW y \in Int, x <= y,
               NEW c \in Nat, NEW u \in Nat, NEW o \in Nat, NEW p \in Nat,
               NEW s \in Nat, t < s
        PROVE  x + 0 + (u + 0) + 0 + t < y + c + (u + o) + p + s
    BY <2>2
  <2>3. /\ 3 * (stream.eof - recv') \in Int /\ 3 * (stream.eof - recv) \in Int
        /\ Len(unsent) + Len(response_busy) \in Nat /\ Len(out) \in Nat
    BY <1>3, Lengths
  <2>4. QED
    BY ONLY <1>6, <1>7, <2>1, <2>2, <2>3, Zenon
<1>8. StepsLeft' < StepsLeft
  BY <1>3, <1>4, <1>5, <1>7, Zenon
<1>9. QED
  BY <1>2, <1>8, RankFalls

(* What a turn outside the loop leaves of the steps. *)
LEMMA OutsideLeft ==
  ASSUME IInv, pc # "encode"
  PROVE  StepsLeft = 3 * (stream.eof - recv) + 0
                       + (Len(unsent) + Len(response_busy) + Len(out))
                       + PhaseLeft + StatusLeft
  BY DEF StepsLeft, ChainLeft, BlocksLeft

(* The chain goes to the write filter, its buffers to the busy chain, a
   block to the client, a buffer back to the free chain: each a step nearer
   to the end of what has been encoded. *)
LEMMA PassingFalls ==
  ASSUME IInv, IInv', Pass \/ SendBlock
  PROVE  Rank \in Nat /\ Rank' \in Nat /\ Rank' < Rank
<1>1. /\ unsent \in Seq(1..Len(mem)) /\ out \in Seq(1..Len(mem))
      /\ response_busy \in Seq(1..Len(mem))
      /\ status' = status /\ stream' = stream /\ recv' = recv
      /\ upstream_done' = upstream_done /\ in' = in
  BY DEF IInv, TypeOK, Pass, EndOfChain, WriteReturns, Recycle, Return,
         SendBlock, ctx
<1>2. CallsLeft' <= CallsLeft
  <2>1. Reached' = Reached
    BY <1>1 DEF Pass, EndOfChain, WriteReturns, Recycle, Return, SendBlock,
                Reached
  <2>2. CallsLeft' = CallsLeft
    BY <1>1, <2>1 DEF CallsLeft
  <2>3. CallsLeft \in Nat
    BY PartsFacts DEF PartsInv
  <2>4. QED
    BY <2>2, <2>3
<1>3. /\ 3 * (stream.eof - recv) \in Nat /\ StatusLeft \in Nat
      /\ Len(unsent) \in Nat /\ Len(response_busy) \in Nat
      /\ Len(out) \in Nat /\ PhaseLeft \in Nat
  <2>1. ASSUME NEW e \in Nat, NEW r \in Nat, r <= e
        PROVE  3 * (e - r) \in Nat
    BY <2>1
  <2>2. 3 * (stream.eof - recv) \in Nat
    BY <2>1, Lengths, Zenon
  <2>3. PhaseLeft \in Nat
    BY PartsFacts DEF PartsInv
  <2>4. QED
    BY <2>2, <2>3, Lengths, Zenon
<1>4. StatusLeft' = StatusLeft
  BY <1>1 DEF StatusLeft
<1> DEFINE a == 3 * (stream.eof - recv)
<1> HIDE DEF a
<1>5. CASE EndOfChain
  <2>1. /\ pc = "encode" /\ pc' \in {"recycle", "write"}
        /\ unsent' = unsent \o out /\ Len(in) = 0
        /\ response_busy' = response_busy /\ out' = out
    BY <1>5 DEF EndOfChain, ctx
  <2>2. Len(unsent') = Len(unsent) + Len(out)
    BY <1>1, <2>1, ConcatFacts
  <2>3. PhaseLeft' \in {1, 2}
    BY <2>1 DEF PhaseLeft
  <2>4. StepsLeft' = a + 0 + ((Len(unsent) + Len(out)) + Len(response_busy)
                                + Len(out)) + PhaseLeft' + StatusLeft
    BY <1>1, <1>4, <2>1, <2>2 DEF StepsLeft, ChainLeft, BlocksLeft, a
  <2>5. StepsLeft = a + (3 * 0 + Len(out))
                      + (Len(unsent) + Len(response_busy) + Len(out))
                      + 3 + StatusLeft
    BY <2>1, LoopLeft DEF a
  <2>6. ASSUME NEW x \in Nat, NEW u \in Nat, NEW o \in Nat, NEW b \in Nat,
               NEW s \in Nat, NEW p \in {1, 2}
        PROVE  x + 0 + ((u + o) + b + o) + p + s
                 < x + (3 * 0 + o) + (u + b + o) + 3 + s
    OBVIOUS
  <2>7. a + 0 + ((Len(unsent) + Len(out)) + Len(response_busy) + Len(out))
          + PhaseLeft' + StatusLeft
        < a + (3 * 0 + Len(out))
            + (Len(unsent) + Len(response_busy) + Len(out)) + 3 + StatusLeft
    <3>1. a \in Nat
      BY <1>3 DEF a
    <3>2. QED
      BY ONLY <1>3, <2>3, <2>6, <3>1, Zenon
  <2>8. StepsLeft' < StepsLeft
    BY ONLY <2>4, <2>5, <2>7, Zenon
  <2>9. QED
    BY <1>2, <2>8, RankFalls
<1>6. CASE WriteReturns
  <2>1. /\ pc = "write" /\ pc' = "recycle" /\ unsent' = unsent
        /\ response_busy' = response_busy \o out /\ out' = << >>
    BY <1>6 DEF WriteReturns
  <2>2. /\ Len(response_busy') = Len(response_busy) + Len(out)
        /\ Len(out') = 0
    BY <1>1, <2>1, ConcatFacts
  <2>3. StepsLeft' = a + 0 + (Len(unsent) + (Len(response_busy) + Len(out))
                                + 0) + 1 + StatusLeft
    BY <1>1, <1>4, <2>1, <2>2
       DEF StepsLeft, ChainLeft, BlocksLeft, PhaseLeft, a
  <2>4. StepsLeft = a + 0 + (Len(unsent) + Len(response_busy) + Len(out))
                      + 2 + StatusLeft
    BY <2>1, OutsideLeft DEF PhaseLeft, a
  <2>5. ASSUME NEW x \in Nat, NEW u \in Nat, NEW o \in Nat, NEW b \in Nat,
               NEW s \in Nat
        PROVE  x + 0 + (u + (b + o) + 0) + 1 + s
                 < x + 0 + (u + b + o) + 2 + s
    OBVIOUS
  <2>6. a + 0 + (Len(unsent) + (Len(response_busy) + Len(out)) + 0)
          + 1 + StatusLeft
        < a + 0 + (Len(unsent) + Len(response_busy) + Len(out))
            + 2 + StatusLeft
    <3>1. a \in Nat
      BY <1>3 DEF a
    <3>2. QED
      BY ONLY <1>3, <2>5, <3>1, Zenon
  <2>7. StepsLeft' < StepsLeft
    BY ONLY <2>3, <2>4, <2>6, Zenon
  <2>8. QED
    BY <1>2, <2>7, RankFalls
<1>7. ASSUME pc # "encode", pc' # "encode", out' = out,
             NEW u \in Nat, NEW b \in Nat, NEW p \in Nat,
             Len(unsent') = u, Len(response_busy') = b, PhaseLeft' = p,
             u <= Len(unsent), b <= Len(response_busy), p <= PhaseLeft,
             u + b + p < Len(unsent) + Len(response_busy) + PhaseLeft
      PROVE  StepsLeft' < StepsLeft
  <2>1. StepsLeft' = a + 0 + (u + b + Len(out)) + p + StatusLeft
    BY <1>1, <1>4, <1>7 DEF StepsLeft, ChainLeft, BlocksLeft, a
  <2>2. StepsLeft = a + 0 + (Len(unsent) + Len(response_busy) + Len(out))
                      + PhaseLeft + StatusLeft
    BY <1>7, OutsideLeft DEF a
  <2>3. ASSUME NEW x \in Nat, NEW v \in Nat, NEW c \in Nat, NEW o \in Nat,
               NEW q \in Nat, NEW s \in Nat, u + b + p < v + c + q
        PROVE  x + 0 + (u + b + o) + p + s < x + 0 + (v + c + o) + q + s
    BY ONLY <2>3, <1>7
  <2>4. a + 0 + (u + b + Len(out)) + p + StatusLeft
        < a + 0 + (Len(unsent) + Len(response_busy) + Len(out))
            + PhaseLeft + StatusLeft
    <3>1. a \in Nat
      BY <1>3 DEF a
    <3>2. QED
      BY ONLY <1>3, <1>7, <2>3, <3>1, Zenon
  <2>5. QED
    BY ONLY <2>1, <2>2, <2>4, Zenon
<1>8. CASE Recycle
  <2>1. /\ pc = "recycle" /\ pc' = pc /\ unsent' = unsent /\ out' = out
        /\ response_busy # << >> /\ response_busy' = Tail(response_busy)
    BY <1>8 DEF Recycle
  <2>2. /\ Len(response_busy') = Len(response_busy) - 1
        /\ Len(response_busy) >= 1
    BY <1>1, <2>1, TailFacts
  <2>3. PhaseLeft' = PhaseLeft
    BY <2>1 DEF PhaseLeft
  <2>4. /\ Len(response_busy) - 1 \in Nat
        /\ Len(response_busy) - 1 <= Len(response_busy)
        /\ Len(unsent) <= Len(unsent) /\ PhaseLeft <= PhaseLeft
        /\ Len(unsent) + (Len(response_busy) - 1) + PhaseLeft
             < Len(unsent) + Len(response_busy) + PhaseLeft
    BY ONLY <1>3, <2>2
  <2>5. StepsLeft' < StepsLeft
    BY <1>3, <1>7, <2>1, <2>2, <2>3, <2>4
  <2>6. QED
    BY <1>2, <2>5, RankFalls
<1>9. CASE Return
  <2>1. /\ pc = "recycle" /\ pc' = "idle" /\ unsent' = unsent /\ out' = out
        /\ response_busy' = response_busy
    BY <1>9 DEF Return, ctx
  <2>2. PhaseLeft = 1 /\ PhaseLeft' = 0
    BY <2>1 DEF PhaseLeft
  <2>3. /\ Len(response_busy) <= Len(response_busy)
        /\ Len(unsent) <= Len(unsent) /\ 0 <= PhaseLeft
        /\ Len(unsent) + Len(response_busy) + 0
             < Len(unsent) + Len(response_busy) + PhaseLeft
    BY ONLY <1>3, <2>2
  <2>4. StepsLeft' < StepsLeft
    BY <1>3, <1>7, <2>1, <2>2, <2>3
  <2>5. QED
    BY <1>2, <2>4, RankFalls
<1>10. CASE SendBlock
  <2>1. /\ pc # "encode" /\ pc' = pc /\ out' = out
        /\ response_busy' = response_busy
        /\ unsent # << >> /\ unsent' = Tail(unsent)
    BY <1>10 DEF SendBlock, ctx
  <2>2. Len(unsent') = Len(unsent) - 1 /\ Len(unsent) >= 1
    BY <1>1, <2>1, TailFacts
  <2>3. PhaseLeft' = PhaseLeft
    BY <2>1 DEF PhaseLeft
  <2>4. /\ Len(unsent) - 1 \in Nat /\ Len(unsent) - 1 <= Len(unsent)
        /\ Len(response_busy) <= Len(response_busy)
        /\ PhaseLeft <= PhaseLeft
        /\ (Len(unsent) - 1) + Len(response_busy) + PhaseLeft
             < Len(unsent) + Len(response_busy) + PhaseLeft
    BY ONLY <1>3, <2>2
  <2>5. StepsLeft' < StepsLeft
    BY <1>3, <1>7, <2>1, <2>2, <2>3, <2>4
  <2>6. QED
    BY <1>2, <2>5, RankFalls
<1>11. QED
  BY <1>5, <1>6, <1>8, <1>9, <1>10 DEF Pass

(* A call is paid for by the bytes, or the end of the body, it brings. *)
LEMMA CallFalls ==
  ASSUME IInv, IInv', NEW c \in Chains, BodyFilter(c)
  PROVE  Rank \in Nat /\ Rank' \in Nat /\ Rank' < Rank
<1>1. /\ pc = "idle" /\ status = "open" /\ upstream_done = FALSE
      /\ in' = c /\ out' = << >> /\ pc' = "encode"
      /\ upstream_done' = c[Len(c)].last_buf
      /\ UNCHANGED <<stream, recv, status, response_busy, unsent>>
  <2>1. upstream_done \in BOOLEAN
    BY Lengths
  <2>2. QED
    BY <2>1 DEF BodyFilter, ctx
<1>2. /\ Len(c) \in 1..MaxBufs /\ MaxBufs \in Nat
      /\ c[Len(c)].end \in recv..stream.eof
      /\ c[Len(c)].last_buf \in BOOLEAN
      /\ c # << >>
  <2>1. PICK m \in 1..MaxBufs :
          c \in [1..m -> [end : recv..stream.eof, last_buf : BOOLEAN]]
    BY DEF Chains
  <2>2. MaxBufs \in Nat
    BY Lengths
  <2>3. m \in Nat /\ m # 0 /\ m \in 1..m
    BY <2>1, <2>2
  <2>4. Len(c) = m
    BY <2>1, <2>3
  <2>5. c[m] \in [end : recv..stream.eof, last_buf : BOOLEAN]
    BY <2>1, <2>3
  <2>6. QED
    BY <2>1, <2>2, <2>3, <2>4, <2>5
<1>3. /\ c[Len(c)].end > recv \/ c[Len(c)].last_buf
      /\ c[Len(c)].last_buf => c[Len(c)].end = stream.eof
  BY DEF Chains
<1>4. recv \in Nat /\ stream.eof \in Nat /\ recv <= stream.eof
  BY Lengths
<1>5. CallsLeft' + 1 <= CallsLeft
  <2>1. CallsLeft = (stream.eof - recv) + 1
    BY <1>1 DEF CallsLeft, Reached
  <2>2. CallsLeft' = (stream.eof - c[Len(c)].end)
                       + IF c[Len(c)].last_buf THEN 0 ELSE 1
    BY <1>1, <1>2 DEF CallsLeft, Reached
  <2>3. CASE c[Len(c)].last_buf
    <3>1. CallsLeft' = 0
      BY <1>3, <1>4, <2>2, <2>3
    <3>2. QED
      BY <1>4, <2>1, <3>1
  <2>4. CASE ~c[Len(c)].last_buf
    <3>1. CallsLeft' = (stream.eof - c[Len(c)].end) + 1
      BY <2>2, <2>4
    <3>2. c[Len(c)].end > recv
      BY <1>3, <2>4
    <3>3. ASSUME NEW e \in Nat, NEW r \in Nat, NEW x \in r..e, x > r
          PROVE  ((e - x) + 1) + 1 <= (e - r) + 1
      BY <3>3
    <3>4. ((stream.eof - c[Len(c)].end) + 1) + 1 <= (stream.eof - recv) + 1
      BY ONLY <1>2, <1>4, <3>2, <3>3, Zenon
    <3>5. QED
      BY ONLY <2>1, <3>1, <3>4, Zenon
  <2>5. QED
    BY <2>3, <2>4
<1>6. StepsLeft' < StepsLeft + CallCost
  <2>1. StepsLeft = 3 * (stream.eof - recv) + 0
                      + (Len(unsent) + Len(response_busy) + 0)
                      + 0 + StatusLeft
    <3>1. out = << >>
      BY <1>1 DEF IInv, ChainsInv
    <3>2. Len(out) = 0 /\ PhaseLeft = 0
      BY <1>1, <3>1 DEF PhaseLeft
    <3>3. QED
      BY <1>1, <3>2, OutsideLeft
  <2>2. StepsLeft' = 3 * (stream.eof - recv) + (3 * Len(c) + 0)
                       + (Len(unsent) + Len(response_busy) + 0)
                       + 3 + StatusLeft
    <3>1. Len(out') = 0 /\ StatusLeft' = StatusLeft
      BY <1>1 DEF StatusLeft
    <3>2. QED
      BY <1>1, <3>1 DEF StepsLeft, ChainLeft, BlocksLeft, PhaseLeft
  <2>3. ASSUME NEW x \in Nat, NEW n \in Nat, NEW m \in 1..n,
               NEW u \in Nat, NEW b \in Nat, NEW s \in Nat
        PROVE  x + (3 * m + 0) + (u + b + 0) + 3 + s
                 < (x + 0 + (u + b + 0) + 0 + s) + (3 * n + 4)
    OBVIOUS
  <2>4. /\ 3 * (stream.eof - recv) \in Nat /\ StatusLeft \in Nat
        /\ Len(unsent) \in Nat /\ Len(response_busy) \in Nat
    BY Lengths
  <2>5. 3 * (stream.eof - recv) + (3 * Len(c) + 0)
          + (Len(unsent) + Len(response_busy) + 0) + 3 + StatusLeft
        < (3 * (stream.eof - recv) + 0
             + (Len(unsent) + Len(response_busy) + 0) + 0 + StatusLeft)
          + (3 * MaxBufs + 4)
    BY ONLY <1>2, <2>3, <2>4, Zenon
  <2>6. QED
    BY ONLY <2>1, <2>2, <2>5, Zenon DEF CallCost
<1>7. QED
  BY <1>5, <1>6, RankFalls

RankInv == Rank \in Nat
Nearer  == RankInv /\ RankInv' /\ Rank' < Rank

LEMMA NextNearer == IInv /\ IInv' /\ Next => Nearer \/ UNCHANGED vars
<1> SUFFICES ASSUME IInv, IInv', Next
             PROVE  (Rank \in Nat /\ Rank' \in Nat /\ Rank' < Rank)
                      \/ UNCHANGED vars
  BY DEF Nearer, RankInv
<1>1. CASE \E c \in Chains : BodyFilter(c)
  BY <1>1, CallFalls
<1>2. CASE ReadHeader \/ OpenFrame \/ ReadPayload
  <2>1. /\ pc = "encode" /\ in # << >> /\ SrcLen # 0
        /\ recv' = recv + Taken
        /\ UNCHANGED <<stream, upstream_done, status, pc, in, out,
                       response_busy, unsent>>
    BY <1>2 DEF ReadHeader, OpenFrame, ReadPayload, InHeader, InPayload
  <2>2. Taken \in Nat /\ 1 <= Taken /\ Taken <= SrcLen
    BY <2>1, TakesSome
  <2>3. Len(out') = Len(out) + 0 /\ 0 \in {0, 1}
    BY <2>1, Lengths
  <2>4. QED
    BY <2>1, <2>2, <2>3, TakingFalls
<1>3. ASSUME NEW data, NEW last_buf, EncodeBlock(data, last_buf)
      PROVE  Len(out') = Len(out) + 1
  <2>1. \E id : out' = Append(out, id)
    BY <1>3 DEF EncodeBlock, Linked
  <2>2. PICK id : out' = Append(out, id)
    BY <2>1
  <2>3. out \in Seq(1..Len(mem))
    BY DEF IInv, TypeOK
  <2>4. ASSUME NEW S, NEW s \in Seq(S), NEW x
        PROVE  Len(Append(s, x)) = Len(s) + 1
    OBVIOUS
  <2>5. Len(Append(out, id)) = Len(out) + 1
    BY ONLY <2>3, <2>4
  <2>6. QED
    BY ONLY <2>2, <2>5
<1>4. CASE EmptyFrame \/ CloseFrame
  <2>1. /\ pc = "encode" /\ in # << >> /\ SrcLen # 0
        /\ recv' = recv + Taken
        /\ UNCHANGED <<stream, upstream_done, status, pc, in,
                       response_busy, unsent>>
    BY <1>4 DEF EmptyFrame, CloseFrame, InHeader, InPayload
  <2>2. Taken \in Nat /\ 1 <= Taken /\ Taken <= SrcLen
    BY <2>1, TakesSome
  <2>3. Len(out') = Len(out) + 1 /\ 1 \in {0, 1}
    BY <1>3, <1>4 DEF EmptyFrame, CloseFrame
  <2>4. QED
    BY <2>1, <2>2, <2>3, TakingFalls
<1>5. CASE NextBuffer
  <2>1. /\ pc = "encode" /\ in # << >> /\ SrcLen = 0 /\ in' = Tail(in)
        /\ UNCHANGED <<stream, recv, upstream_done, status, pc, out,
                       response_busy, unsent>>
    BY <1>5 DEF NextBuffer, ctx
  <2>2. Len(out') = Len(out) + 0 /\ 0 \in {0, 1}
    BY <2>1, Lengths
  <2>3. QED
    BY <2>1, <2>2, DroppingFalls
<1>6. CASE EncodeTrailers
  <2>1. /\ pc = "encode" /\ in # << >> /\ SrcLen = 0 /\ in' = Tail(in)
        /\ UNCHANGED <<stream, recv, upstream_done, status, pc,
                       response_busy, unsent>>
    BY <1>6 DEF EncodeTrailers, AtLastBuf
  <2>2. Len(out') = Len(out) + 1 /\ 1 \in {0, 1}
    BY <1>3, <1>6 DEF EncodeTrailers
  <2>3. QED
    BY <2>1, <2>2, DroppingFalls
<1>7. CASE RejectFrame \/ RejectEnd \/ AllocationFails
  <2>1. /\ pc = "encode" /\ pc' = "idle" /\ out' = << >>
        /\ status' \in {"rejected", "no_memory"}
        /\ UNCHANGED <<stream, response_busy, unsent>>
        /\ \/ recv' = recv
           \/ InHeader /\ recv' = recv + Taken
    BY <1>7 DEF RejectFrame, RejectEnd, AllocationFails, Terminate,
                InHeader, InPayload, AtLastBuf, ctx
  <2>2. recv <= recv'
    <3>1. CASE recv' = recv
      BY <3>1, Lengths
    <3>2. CASE InHeader /\ recv' = recv + Taken
      <4>1. Taken \in Nat
        BY <3>2, TakesSome DEF InHeader
      <4>2. QED
        BY <3>2, <4>1, Lengths
    <3>3. QED
      BY <2>1, <3>1, <3>2
  <2>3. StatusLeft = 2 /\ StatusLeft' = 0 /\ status' # "open"
    <3>1. status = "open"
      BY <2>1 DEF IInv, CallInv
    <3>2. QED
      BY <2>1, <3>1 DEF StatusLeft
  <2>4. StatusLeft' < StatusLeft
    BY ONLY <2>3
  <2>5. QED
    BY <2>1, <2>2, <2>3, <2>4, EndingFalls
<1>8. CASE UpstreamFails \/ Close \/ Cancel
  <2>1. /\ pc = "idle" /\ pc' = "idle" /\ out' = out /\ recv' = recv
        /\ \/ status = "open" /\ status' = "upstream_failed"
           \/ status = "upstream_failed" /\ status' = "closed"
           \/ Sending /\ status' = "cancelled"
        /\ UNCHANGED <<stream, response_busy, unsent>>
    BY <1>8 DEF UpstreamFails, Close, Cancel, ctx
  <2>2. out' = << >> /\ recv <= recv'
    BY <2>1, Lengths DEF IInv, ChainsInv
  <2>3. StatusLeft' < StatusLeft /\ status' # "open"
    BY <2>1 DEF StatusLeft, Sending
  <2>4. QED
    BY <2>1, <2>2, <2>3, EndingFalls
<1>9. CASE Pass \/ SendBlock
  BY <1>9, PassingFalls
<1>10. CASE Over
  BY <1>10 DEF Over
<1>11. QED
  BY <1>1, <1>2, <1>4, <1>5, <1>6, <1>7, <1>8, <1>9, <1>10 DEF Next, Encode

(* The safety half of Ends and Completes: however the upstream's bytes are
   cut into calls and buffers and whatever the client takes when, a response
   is over within (3 * MaxBufs + 7) * eof + 3 * MaxBufs + 6 steps.  The
   loops of the encoder and of ngx_chain_update_chains (lines 950-1103 and
   1164-1207) end in every call.  That the worker, the upstream and the
   client go on is left to TLC. *)
THEOREM EveryStepCounts == Spec => [][Nearer]_vars
<1>1. IInv /\ IInv' /\ [Next]_vars => [Nearer]_vars
  BY NextNearer
<1>2. QED
  BY <1>1, SpecIInv, PTL DEF Spec

-----------------------------------------------------------------------------
(* The end is the right one.                                               *)

(* Once the end of the body has been handed over, the trailers follow in the
   same call; and only an upstream that is not clean fails. *)
LastInv ==
  /\ status \in {"upstream_failed", "closed"} => ~stream.clean
  /\ status = "open" /\ upstream_done =>
       \/ trailers_sent
       \/ pc = "encode" /\ in # << >> /\ in[Len(in)].last_buf

LEMMA NextLastInv == IInv /\ LastInv /\ [Next]_vars => LastInv'
<1> SUFFICES ASSUME IInv, LastInv, [Next]_vars
             PROVE  LastInv'
  OBVIOUS
<1>1. ASSUME NEW c \in Chains, BodyFilter(c)
      PROVE  LastInv'
  <2>1. /\ in' = c /\ upstream_done' = c[Len(c)].last_buf
        /\ pc' = "encode" /\ status = "open" /\ status' = status
    BY <1>1 DEF BodyFilter
  <2>2. PICK m \in 1..MaxBufs :
          c \in [1..m -> [end : recv..stream.eof, last_buf : BOOLEAN]]
    BY DEF Chains
  <2>3. Len(c) = m /\ m \in Nat /\ m # 0
    BY <2>2, TextAssumption
  <2>4. c # << >>
    BY <2>3
  <2>5. QED
    BY <2>1, <2>4 DEF LastInv
<1>2. CASE NextBuffer
  <2>1. /\ pc = "encode" /\ in # << >> /\ in' = Tail(in)
        /\ ~Head(in).last_buf
        /\ UNCHANGED <<upstream_done, status, stream, trailers_sent, pc>>
    BY <1>2 DEF NextBuffer, ctx
  <2>2. /\ in \in Seq(NativeBufs) /\ Len(in) \in Nat /\ Len(in) >= 1
        /\ Len(in') = Len(in) - 1 /\ Head(in) = in[1]
        /\ \A i \in 1..(Len(in) - 1) : in'[i] = in[i + 1]
    <3>1. in \in Seq(NativeBufs)
      BY DEF IInv, TypeOK
    <3>2. QED
      BY <2>1, <3>1, TailFacts
  <2>3. ASSUME in[Len(in)].last_buf
        PROVE  in' # << >> /\ in'[Len(in')] = in[Len(in)]
    <3>1. Len(in) # 1
      BY <2>1, <2>2, <2>3
    <3>2. /\ Len(in) - 1 \in 1..(Len(in) - 1)
          /\ (Len(in) - 1) + 1 = Len(in)
      BY ONLY <2>2, <3>1
    <3>3. in'[Len(in) - 1] = in[(Len(in) - 1) + 1] /\ Len(in') # 0
      BY <2>2, <3>2
    <3>4. Len(<< >>) = 0
      OBVIOUS
    <3>5. QED
      BY ONLY <2>2, <3>2, <3>3, <3>4, Zenon
  <2>4. QED
    BY <2>1, <2>3 DEF LastInv
<1>3. CASE EncodeTrailers
  <2>1. /\ trailers_sent' = TRUE /\ pc = "encode"
        /\ UNCHANGED <<status, stream>>
    BY <1>3 DEF EncodeTrailers, AtLastBuf
  <2>2. QED
    BY <2>1 DEF LastInv
<1>4. CASE ReadHeader \/ OpenFrame \/ EmptyFrame \/ ReadPayload \/ CloseFrame
             \/ SendBlock \/ Over \/ UNCHANGED vars
  <2>1. UNCHANGED <<trailers_sent, upstream_done, pc, in, status, stream>>
    BY <1>4 DEF ReadHeader, OpenFrame, EmptyFrame, ReadPayload, CloseFrame,
                SendBlock, Over, vars, ctx
  <2>2. QED
    BY <2>1 DEF LastInv
<1>5. CASE EndOfChain \/ WriteReturns \/ Recycle \/ Return
  <2>1. /\ ~(pc = "encode" /\ in # << >>)
        /\ UNCHANGED <<trailers_sent, upstream_done, status, stream>>
    BY <1>5 DEF EndOfChain, WriteReturns, Recycle, Return, ctx
  <2>2. QED
    BY <2>1 DEF LastInv
<1>6. CASE RejectFrame \/ RejectEnd \/ AllocationFails \/ Cancel
  <2>1. status' \in {"rejected", "no_memory", "cancelled"}
    BY <1>6 DEF RejectFrame, RejectEnd, AllocationFails, Cancel, Terminate
  <2>2. QED
    BY <2>1 DEF LastInv
<1>7. CASE UpstreamFails \/ Close
  <2>1. ~stream.clean /\ stream' = stream /\ status' # "open"
    BY <1>7 DEF UpstreamFails, Close, LastInv
  <2>2. QED
    BY <2>1 DEF LastInv
<1>8. QED
  BY <1>1, <1>2, <1>3, <1>4, <1>5, <1>6, <1>7 DEF Next, Encode, Pass

EndsWell ==
  (Finished \/ ~Sending) /\ Complete(stream) =>
    \/ status \in {"cancelled", "no_memory"}
    \/ Len(wire) = Messages(stream) + 1

(* What Completes promises of the end of a complete response (lines
   1072-1103): when it is over, and neither the client left nor memory ran
   out, the client has every message and the terminal block.  With
   EveryStepCounts only the coming of the end is left to TLC. *)
THEOREM OverMeansDelivered == Spec => []EndsWell
<1>1. Init => LastInv
  BY DEF Init, LastInv
<1>2. IInv /\ LastInv => EndsWell
  <2> SUFFICES ASSUME IInv, LastInv, Finished \/ ~Sending, Complete(stream),
                      status \notin {"cancelled", "no_memory"}
               PROVE  Len(wire) = Messages(stream) + 1
    BY DEF EndsWell
  <2>1. /\ stream \in Streams /\ trailers_sent \in BOOLEAN
        /\ Len(wire) \in Nat
        /\ status \in {"open", "rejected", "no_memory", "upstream_failed",
                       "closed", "cancelled"}
    BY DEF IInv, TypeOK
  <2>2. stream.clean /\ status \notin {"upstream_failed", "closed"}
    BY DEF Complete, LastInv
  <2>3. status # "rejected"
    BY DEF IInv, RejectsOnlyBadStreams, Complete
  <2>4. status = "open" /\ upstream_done /\ pc = "idle" /\ unsent = << >>
    BY <2>1, <2>2, <2>3 DEF Sending, Finished
  <2>5. trailers_sent
    BY <2>4 DEF LastInv
  <2>6. Made = Messages(stream) + 1
    BY <2>4, <2>5 DEF IInv, CountInv
  <2>7. Made = Len(wire) + 0 + 0
    <3>1. Len(unsent) = 0
      BY <2>4
    <3>2. QED
      BY <2>4, <3>1 DEF Made
  <2>8. QED
    BY <2>1, <2>6, <2>7
<1>3. QED
  BY <1>1, <1>2, InitIInv, NextIInv, NextLastInv, PTL DEF Spec
=============================================================================
