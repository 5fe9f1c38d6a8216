------------------------ MODULE ResponseFilterProofs ------------------------
(***************************************************************************)
(* The hooks, for every request and response, every limit and every way of *)
(* cutting the body into calls.                                            *)
(*                                                                         *)
(* The wire is a function of how much has been handed to the body filter:  *)
(* a row of items, the item after the k-th being the same however the      *)
(* calls were cut, and after it, once the response is complete, what ends  *)
(* it (WireInv).  Which row and which end is settled by the header filter  *)
(* and never changes (CtxInv, ShownInv).  The five properties of the run   *)
(* are read off that.                                                      *)
(***************************************************************************)
EXTENDS ResponseFilter, SequenceTheorems, TLAPS

Items == [what : {"half", "block", "trailer", "status", "end"}, of : Nat]

(* The first n items of a body, re-framed or as it came. *)
Row(framed, n) == [i \in 1..n |-> IF framed THEN Block(i) ELSE Half(i)]

(* The part of the row that comes after the first m items. *)
RowAfter(framed, m, n) ==
  [i \in 1..(n - m) |-> IF framed THEN Block(m + i) ELSE Half(m + i)]

LEMMA ItemFacts ==
  /\ \A k \in Nat : Half(k) \in Items /\ Block(k) \in Items /\ Status(k) \in Items
  /\ Trailer \in Items /\ End \in Items
  /\ \A k \in Nat : Half(k).what = "half" /\ Block(k).what = "block"
                    /\ Status(k).what = "status"
  /\ Trailer.what = "trailer" /\ End.what = "end"
  BY DEF Items, Half, Block, Status, Trailer, End

LEMMA RowFacts ==
  ASSUME NEW framed \in BOOLEAN, NEW n \in Nat
  PROVE  /\ Row(framed, n) \in Seq(Items) /\ Len(Row(framed, n)) = n
         /\ \A i \in 1..n : Row(framed, n)[i] = IF framed THEN Block(i) ELSE Half(i)
<1>1. \A i \in 1..n : (IF framed THEN Block(i) ELSE Half(i)) \in Items
  BY ItemFacts
<1>2. Row(framed, n) \in [1..n -> Items]
  BY <1>1 DEF Row
<1>3. QED
  BY <1>2 DEF Row

(* Cutting a row and passing on its pieces makes no difference. *)
LEMMA RowGrows ==
  ASSUME NEW framed \in BOOLEAN, NEW n \in Nat, NEW m \in 0..n
  PROVE  Row(framed, m) \o RowAfter(framed, m, n) = Row(framed, n)
<1> DEFINE a == Row(framed, m)
           b == RowAfter(framed, m, n)
           c == Row(framed, n)
           at(i) == IF framed THEN Block(i) ELSE Half(i)
<1>1. /\ a \in Seq(Items) /\ Len(a) = m
      /\ \A i \in 1..m : a[i] = at(i)
  BY RowFacts
<1>2. /\ c \in Seq(Items) /\ Len(c) = n
      /\ \A i \in 1..n : c[i] = at(i)
  BY RowFacts
<1>3. /\ b \in Seq(Items) /\ Len(b) = n - m
      /\ \A i \in 1..(n - m) : b[i] = at(m + i)
  <2>1. n - m \in Nat /\ \A i \in 1..(n - m) : m + i \in Nat
    OBVIOUS
  <2>2. \A i \in 1..(n - m) : at(m + i) \in Items
    BY <2>1, ItemFacts
  <2>3. b \in [1..(n - m) -> Items]
    BY <2>2 DEF RowAfter
  <2>4. QED
    BY <2>1, <2>3 DEF RowAfter
<1> HIDE DEF a, b, c, at
<1>4. /\ a \o b \in Seq(Items) /\ Len(a \o b) = m + (n - m)
      /\ \A i \in 1..m : (a \o b)[i] = a[i]
      /\ \A i \in 1..(n - m) : (a \o b)[m + i] = b[i]
  <2>1. /\ a \o b \in Seq(Items) /\ Len(a \o b) = Len(a) + Len(b)
        /\ \A i \in 1..Len(a) : (a \o b)[i] = a[i]
        /\ \A i \in 1..Len(b) : (a \o b)[Len(a) + i] = b[i]
    <3>1. a \in Seq(Items) /\ b \in Seq(Items)
      BY <1>1, <1>3
    <3>2. QED
      BY <3>1, ConcatProperties
  <2>2. QED
    BY <1>1, <1>3, <2>1
<1>5. ASSUME NEW i \in 1..n
      PROVE  c[i] = (a \o b)[i]
  <2>1. CASE i <= m
    BY <1>1, <1>2, <1>4, <2>1
  <2>2. CASE ~(i <= m)
    <3>1. i - m \in 1..(n - m) /\ m + (i - m) = i
      BY <2>2
    <3>2. QED
      BY <1>2, <1>3, <1>4, <3>1
  <2>3. QED
    BY <2>1, <2>2
<1>6. a \o b = c
  <2>1. Len(a \o b) = Len(c)
    BY <1>2, <1>4
  <2>2. \A i \in 1..Len(c) : c[i] = (a \o b)[i]
    BY <1>2, <1>5
  <2>3. QED
    BY <1>2, <1>4, <2>1, <2>2, SeqEqual
<1>7. QED
  BY <1>6 DEF a, b, c

LEMMA RowAfterFacts ==
  ASSUME NEW framed \in BOOLEAN, NEW n \in Nat, NEW m \in 0..n
  PROVE  RowAfter(framed, m, n) \in Seq(Items)
<1>1. n - m \in Nat /\ \A i \in 1..(n - m) : m + i \in Nat
  OBVIOUS
<1>2. \A i \in 1..(n - m) : (IF framed THEN Block(m + i) ELSE Half(m + i)) \in Items
  BY <1>1, ItemFacts
<1>3. RowAfter(framed, m, n) \in [1..(n - m) -> Items]
  BY <1>2 DEF RowAfter
<1>4. QED
  BY <1>1, <1>3

-----------------------------------------------------------------------------
(* The inductive invariant.                                                *)

(* The body filter leaves the body alone. *)
Passes == ~ctx.transform \/ (IsNative /\ TrailersOnly)

(* The body is re-framed. *)
Framed == ~Passes /\ IsNative /\ ctx.text_response

(* How many items stand for the first h halves. *)
Count(h) ==
  IF Passes THEN h ELSE IF ~IsNative THEN 0 ELSE IF Framed THEN h \div 2 ELSE h

Terminal ==
  IF Passes THEN <<End>>
  ELSE IF IsNative THEN <<Trailer, End>> ELSE <<Status(LocalStatus), End>>

TypeInv ==
  /\ request \in Requests /\ response \in Responses /\ limit \in Limits
  /\ phase \in {"rewrite", "header", "body", "complete", "refused", "cut"}
  /\ ctx \in [active : BOOLEAN, text_response : BOOLEAN, transform : BOOLEAN,
              trailers_sent : BOOLEAN, local_error : Nat]
  /\ shown \in [status : Nat, web : BOOLEAN, status_header : BOOLEAN]
  /\ handed \in 0..response.halves

CtxInv ==
  /\ ctx.transform => ctx.active /\ (IsNative \/ LocalStatus # 0)
  /\ phase \in {"rewrite", "header"} => ctx.transform = FALSE /\ ctx.trailers_sent = FALSE
  /\ phase \in {"body", "complete", "refused"} =>
       (ctx.active /\ (IsNative \/ LocalStatus # 0) => ctx.transform)
  /\ ctx.local_error = IF ctx.transform /\ ~IsNative THEN LocalStatus ELSE 0
  /\ phase = "body" /\ ~Passes => ctx.trailers_sent = FALSE
  /\ phase = "body" /\ ctx.transform /\ Passes => ctx.trailers_sent = TRUE

ShownInv ==
  phase \in {"body", "complete"} =>
    /\ ~ctx.transform => shown = Untouched
    /\ shown.status_header = response.status_header

(* A complete response has its end, made of good trailers if it is made. *)
WireInv ==
  /\ phase \in {"rewrite", "header"} => wire = << >> /\ handed = 0
  /\ phase = "body" => wire = Row(Framed, Count(handed))
  /\ phase = "complete" => wire = Row(Framed, Count(handed)) \o Terminal
  /\ phase \in {"refused", "cut"} => \E h \in 0..handed : wire = Row(Framed, Count(h))
  /\ phase = "complete" /\ ~Passes /\ IsNative => response.clean /\ response.trailer # 0

IInv == TypeInv /\ CtxInv /\ ShownInv /\ WireInv /\ RefusedForCause

LEMMA CtxFacts ==
  ASSUME TypeInv
  PROVE  /\ Passes \in BOOLEAN /\ Framed \in BOOLEAN
         /\ IsNative \in BOOLEAN /\ TrailersOnly \in BOOLEAN
         /\ response.halves \in Nat /\ handed \in Nat
         /\ LocalStatus \in {0, 4, 14} /\ (IsNative => LocalStatus = 0)
         /\ \A h \in Nat : Count(h) \in Nat
         /\ Count(0) = 0
<1>1. response.halves \in Nat
  BY ResponseAssumption DEF TypeInv
<1>2. handed \in Nat
  BY <1>1 DEF TypeInv
<1>3. LocalStatus \in {0, 4, 14} /\ (IsNative => LocalStatus = 0)
  BY DEF LocalStatus, IsNative
<1>4. Passes \in BOOLEAN /\ Framed \in BOOLEAN /\ IsNative \in BOOLEAN /\ TrailersOnly \in BOOLEAN
  BY ResponseAssumption DEF TypeInv, Passes, Framed, IsNative, TrailersOnly
<1>5. ASSUME NEW h \in Nat
      PROVE  Count(h) \in Nat
  BY DEF Count
<1>6. Count(0) = 0
  BY DEF Count
<1>7. QED
  BY <1>1, <1>2, <1>3, <1>4, <1>5, <1>6

LEMMA EmptyRow == \A framed : Row(framed, 0) = << >>
  BY DEF Row

(* A response with nothing but headers has no body to pass. *)
LEMMA TrailersOnlyFacts ==
  ASSUME TypeInv
  PROVE  /\ TrailersOnly => response.halves = 0
         /\ response.status_header => IsNative /\ TrailersOnly
<1>1. response \in Responses
  BY DEF TypeInv
<1>2. QED
  BY <1>1, UpstreamAssumption DEF TrailersOnly, IsNative

-----------------------------------------------------------------------------
(* The invariant holds at first and is kept by every action.               *)

LEMMA InitIInv ==
  ASSUME Init
  PROVE  IInv
<1>1. response.halves \in Nat
  BY ResponseAssumption DEF Init
<1>2. TypeInv
  BY <1>1 DEF Init, TypeInv, NoCtx
<1>3. CtxInv
  BY DEF Init, CtxInv, NoCtx, Passes
<1>4. ShownInv /\ WireInv /\ RefusedForCause
  BY DEF Init, ShownInv, WireInv, RefusedForCause
<1>5. QED
  BY <1>2, <1>3, <1>4 DEF IInv

LEMMA RewriteIInv ==
  ASSUME IInv, NEW enabled \in BOOLEAN, NEW again \in BOOLEAN,
         RewriteHandler(enabled, again)
  PROVE  IInv'
<1>1. /\ phase = "rewrite" /\ phase' \in {"rewrite", "header"}
      /\ UNCHANGED <<request, response, limit, shown, handed, wire>>
  BY DEF RewriteHandler, env
<1>2. ctx' = ctx \/ ctx' = [NoCtx EXCEPT !.active = TRUE,
                                        !.text_response = request.accept_text]
  BY DEF RewriteHandler
<1>3. request.accept_text \in BOOLEAN
  BY ResponseAssumption DEF IInv, TypeInv
<1>4. TypeInv'
  <2> DEFINE Ctxs == [active : BOOLEAN, text_response : BOOLEAN, transform : BOOLEAN,
                      trailers_sent : BOOLEAN, local_error : Nat]
  <2>1. ctx \in Ctxs
    BY DEF IInv, TypeInv
  <2>2. [NoCtx EXCEPT !.active = TRUE, !.text_response = request.accept_text] \in Ctxs
    BY <1>3 DEF NoCtx
  <2>3. ctx' \in Ctxs
    BY <1>2, <2>1, <2>2
  <2>4. QED
    BY <1>1, <2>3 DEF IInv, TypeInv
<1>5. CtxInv'
  <2>1. ctx.transform = FALSE /\ ctx.local_error = 0 /\ ctx.trailers_sent = FALSE
    BY <1>1 DEF IInv, CtxInv
  <2>2. ctx'.transform = FALSE /\ ctx'.local_error = 0 /\ ctx'.trailers_sent = FALSE
    BY <1>2, <2>1 DEF NoCtx
  <2>3. QED
    BY <1>1, <2>2 DEF CtxInv
<1>6. ShownInv' /\ RefusedForCause'
  BY <1>1 DEF ShownInv, RefusedForCause
<1>7. WireInv'
  BY <1>1 DEF IInv, WireInv
<1>8. QED
  BY <1>4, <1>5, <1>6, <1>7 DEF IInv

(* With the headers nothing is on the wire yet. *)
LEMMA HeadersWire ==
  ASSUME IInv, phase = "header", phase' = "body", TypeInv',
         UNCHANGED <<handed, wire>>
  PROVE  WireInv'
<1>1. wire' = << >> /\ handed' = 0
  BY DEF IInv, WireInv
<1>2. Count(0)' = 0
  BY DEF Count
<1>3. wire' = Row(Framed', Count(handed)')
  BY <1>1, <1>2, EmptyRow
<1>4. QED
  BY <1>3 DEF WireInv

LEMMA PassHeadersIInv ==
  ASSUME IInv, PassHeaders
  PROVE  IInv'
<1>1. /\ phase = "header" /\ phase' = "body"
      /\ shown' = Untouched
      /\ UNCHANGED <<request, response, limit, ctx, handed, wire>>
      /\ ~ctx.active \/ (~IsNative /\ LocalStatus = 0)
  BY DEF PassHeaders, env
<1>2. TypeInv'
  <2>1. Untouched \in [status : Nat, web : BOOLEAN, status_header : BOOLEAN]
    BY ResponseAssumption DEF IInv, TypeInv, Untouched
  <2>2. QED
    BY <1>1, <2>1 DEF IInv, TypeInv
<1>3. CtxInv'
  BY <1>1 DEF IInv, CtxInv, Passes, IsNative, LocalStatus
<1>4. ShownInv'
  BY <1>1 DEF ShownInv, Untouched
<1>5. WireInv'
  BY <1>1, <1>2, HeadersWire
<1>6. RefusedForCause'
  BY <1>1 DEF RefusedForCause
<1>7. QED
  BY <1>2, <1>3, <1>4, <1>5, <1>6 DEF IInv

LEMMA LocalErrorIInv ==
  ASSUME IInv, LocalError
  PROVE  IInv'
<1>1. /\ phase = "header" /\ phase' = "body"
      /\ ctx.active /\ ~IsNative /\ LocalStatus # 0
      /\ ctx' = [ctx EXCEPT !.transform = TRUE, !.local_error = LocalStatus]
      /\ shown' = [Untouched EXCEPT !.status = 200, !.web = TRUE]
      /\ UNCHANGED <<request, response, limit, handed, wire>>
  BY DEF LocalError, env
<1>2. TypeInv'
  <2>1. Untouched \in [status : Nat, web : BOOLEAN, status_header : BOOLEAN]
    BY ResponseAssumption DEF IInv, TypeInv, Untouched
  <2>2. LocalStatus \in Nat
    BY CtxFacts DEF IInv
  <2>3. ctx' \in [active : BOOLEAN, text_response : BOOLEAN, transform : BOOLEAN,
                  trailers_sent : BOOLEAN, local_error : Nat]
    <3>1. ctx \in [active : BOOLEAN, text_response : BOOLEAN, transform : BOOLEAN,
                   trailers_sent : BOOLEAN, local_error : Nat]
      BY DEF IInv, TypeInv
    <3>2. ctx' = [ctx EXCEPT !.transform = TRUE, !.local_error = LocalStatus]
      BY <1>1
    <3>3. QED
      BY ONLY <2>2, <3>1, <3>2
  <2>4. shown' \in [status : Nat, web : BOOLEAN, status_header : BOOLEAN]
    <3>1. 200 \in Nat /\ shown' = [Untouched EXCEPT !.status = 200, !.web = TRUE]
      BY <1>1
    <3>2. QED
      BY ONLY <2>1, <3>1
  <2>5. QED
    BY <1>1, <2>3, <2>4 DEF IInv, TypeInv
<1>3. CtxInv'
  <2>1. ctx'.transform = TRUE /\ ctx'.local_error = LocalStatus /\ ctx'.active = ctx.active
        /\ ctx'.trailers_sent = ctx.trailers_sent
    BY <1>1 DEF IInv, TypeInv
  <2>2. IsNative' = IsNative /\ LocalStatus' = LocalStatus
    BY <1>1 DEF IsNative, LocalStatus
  <2>3. ctx.trailers_sent = FALSE
    BY <1>1 DEF IInv, CtxInv
  <2>4. QED
    BY <1>1, <2>1, <2>2, <2>3 DEF CtxInv, Passes
<1>4. ShownInv'
  <2>1. ctx'.transform = TRUE
    BY <1>1 DEF IInv, TypeInv
  <2>2. shown'.status_header = response'.status_header
    BY <1>1 DEF Untouched
  <2>3. QED
    BY <2>1, <2>2 DEF ShownInv
<1>5. WireInv'
  BY <1>1, <1>2, HeadersWire
<1>6. RefusedForCause'
  BY <1>1 DEF RefusedForCause
<1>7. QED
  BY <1>2, <1>3, <1>4, <1>5, <1>6 DEF IInv

LEMMA NativeHeadersIInv ==
  ASSUME IInv, NativeHeaders
  PROVE  IInv'
<1>1. /\ phase = "header" /\ phase' = "body"
      /\ ctx.active /\ IsNative
      /\ ctx' = [ctx EXCEPT !.transform = TRUE, !.trailers_sent = TrailersOnly]
      /\ shown' = [Untouched EXCEPT !.web = TRUE]
      /\ UNCHANGED <<request, response, limit, handed, wire>>
  BY DEF NativeHeaders, env
<1>2. TypeInv'
  <2>1. Untouched \in [status : Nat, web : BOOLEAN, status_header : BOOLEAN]
    BY ResponseAssumption DEF IInv, TypeInv, Untouched
  <2>2. TrailersOnly \in BOOLEAN
    BY CtxFacts DEF IInv
  <2>3. ctx' \in [active : BOOLEAN, text_response : BOOLEAN, transform : BOOLEAN,
                  trailers_sent : BOOLEAN, local_error : Nat]
    <3>1. ctx \in [active : BOOLEAN, text_response : BOOLEAN, transform : BOOLEAN,
                   trailers_sent : BOOLEAN, local_error : Nat]
      BY DEF IInv, TypeInv
    <3>2. ctx' = [ctx EXCEPT !.transform = TRUE, !.trailers_sent = TrailersOnly]
      BY <1>1
    <3>3. QED
      BY ONLY <2>2, <3>1, <3>2
  <2>4. shown' \in [status : Nat, web : BOOLEAN, status_header : BOOLEAN]
    <3>1. shown' = [Untouched EXCEPT !.web = TRUE]
      BY <1>1
    <3>2. QED
      BY ONLY <2>1, <3>1
  <2>5. QED
    BY <1>1, <2>3, <2>4 DEF IInv, TypeInv
<1>3. CtxInv'
  <2>1. ctx'.transform = TRUE /\ ctx'.local_error = ctx.local_error /\ ctx'.active = ctx.active
        /\ ctx'.trailers_sent = TrailersOnly
    BY <1>1 DEF IInv, TypeInv
  <2>2. IsNative' = IsNative /\ LocalStatus' = LocalStatus /\ TrailersOnly' = TrailersOnly
    BY <1>1 DEF IsNative, LocalStatus, TrailersOnly
  <2>3. ctx.local_error = 0 /\ TrailersOnly \in BOOLEAN
    BY <1>1, CtxFacts DEF IInv, CtxInv
  <2>4. QED
    BY <1>1, <2>1, <2>2, <2>3 DEF CtxInv, Passes
<1>4. ShownInv'
  <2>1. ctx'.transform = TRUE
    BY <1>1 DEF IInv, TypeInv
  <2>2. shown'.status_header = response'.status_header
    BY <1>1 DEF Untouched
  <2>3. QED
    BY <2>1, <2>2 DEF ShownInv
<1>5. WireInv'
  BY <1>1, <1>2, HeadersWire
<1>6. RefusedForCause'
  BY <1>1 DEF RefusedForCause
<1>7. QED
  BY <1>2, <1>3, <1>4, <1>5, <1>6 DEF IInv

(* What a call of the body filter does to the wire: it adds the items of the
   n halves, and what ends the response; or it fails. *)
LEMMA RowSteps ==
  ASSUME TypeInv, NEW n \in 0..(response.halves - handed)
  PROVE  /\ Framed \in BOOLEAN /\ handed + n \in 0..response.halves
         /\ Count(handed + n) \in Nat /\ Count(handed) \in 0..Count(handed + n)
         /\ Row(Framed, Count(handed)) \o RowAfter(Framed, Count(handed), Count(handed + n))
              = Row(Framed, Count(handed + n))
<1>1. handed \in Nat /\ n \in Nat /\ response.halves \in Nat
  BY CtxFacts
<1>2. handed + n \in 0..response.halves
  BY <1>1 DEF TypeInv
<1>3. handed \div 2 \in Nat /\ handed \div 2 <= (handed + n) \div 2
      /\ (handed + n) \div 2 \in Nat
  BY <1>1
<1>4. Count(handed) \in Nat /\ Count(handed + n) \in Nat
      /\ Count(handed) <= Count(handed + n)
  BY <1>1, <1>3 DEF Count
<1>5. Count(handed) \in 0..Count(handed + n)
  BY <1>4
<1>6. Framed \in BOOLEAN
  BY CtxFacts
<1>7. QED
  BY <1>2, <1>4, <1>5, <1>6, RowGrows

LEMMA TerminalFacts ==
  ASSUME TypeInv
  PROVE  Terminal \in Seq(Items)
<1>1. LocalStatus \in Nat
  BY CtxFacts
<1>2. End \in Items /\ Trailer \in Items /\ Status(LocalStatus) \in Items
  BY <1>1, ItemFacts
<1>3. /\ <<End>> \in Seq(Items) /\ <<Trailer, End>> \in Seq(Items)
      /\ <<Status(LocalStatus), End>> \in Seq(Items)
  BY <1>2
<1>4. QED
  BY <1>3 DEF Terminal

LEMMA SendWire ==
  ASSUME IInv, TypeInv', phase = "body",
         NEW n \in 0..(response.halves - handed), NEW last \in BOOLEAN,
         handed' = handed + n, NEW items,
         Send(items, last),
         UNCHANGED <<Passes, Framed, IsNative, LocalStatus>>,
         items = IF last
                 THEN RowAfter(Framed, Count(handed), Count(handed + n)) \o Terminal
                 ELSE RowAfter(Framed, Count(handed), Count(handed + n)),
         last /\ ~Passes /\ IsNative => response.clean /\ response.trailer # 0,
         response' = response
  PROVE  WireInv'
<1> DEFINE old == Row(Framed, Count(handed))
           more == RowAfter(Framed, Count(handed), Count(handed + n))
           new == Row(Framed, Count(handed + n))
<1>1. wire = old
  BY DEF IInv, WireInv
<1>2. old \o more = new
  BY RowSteps DEF IInv
<1>3. Row(Framed, Count(handed))' = new
  BY DEF Count
<1>4. Terminal' = Terminal
  BY DEF Terminal
<1>5. CASE last
  <2>1. wire' = old \o (more \o Terminal) /\ phase' = "complete"
    BY <1>1, <1>5 DEF Send
  <2>2. old \o (more \o Terminal) = (old \o more) \o Terminal
    <3>1. /\ Framed \in BOOLEAN
          /\ Count(handed + n) \in Nat /\ Count(handed) \in 0..Count(handed + n)
      BY RowSteps DEF IInv
    <3>2. old \in Seq(Items)
      BY <3>1, RowFacts
    <3>3. more \in Seq(Items)
      BY <3>1, RowAfterFacts
    <3>4. Terminal \in Seq(Items)
      BY TerminalFacts DEF IInv
    <3> DEFINE end == Terminal
    <3>5. old \in Seq(Items) /\ more \in Seq(Items) /\ end \in Seq(Items)
      BY <3>2, <3>3, <3>4
    <3> HIDE DEF old, more, end
    <3>6. (old \o more) \o end = old \o (more \o end)
      BY ONLY <3>5, ConcatAssociative, ConcatEmptySeq, ConcatProperties
    <3>7. QED
      BY <3>6 DEF end
  <2>3. wire' = new \o Terminal
    BY <1>2, <2>1, <2>2
  <2>4. QED
    BY <1>3, <1>4, <1>5, <2>1, <2>3 DEF WireInv
<1>6. CASE ~last
  <2>1. wire' = old \o more /\ phase' = "body"
    BY <1>1, <1>6 DEF Send
  <2>2. QED
    BY <1>2, <1>3, <2>1 DEF WireInv
<1>7. QED
  BY <1>5, <1>6

(* An error return leaves the wire as it was. *)
LEMMA BreakWire ==
  ASSUME IInv, phase = "body", phase' = "refused",
         NEW n \in 0..(response.halves - handed), handed' = handed + n,
         UNCHANGED <<wire, Passes, Framed, IsNative>>
  PROVE  WireInv'
<1>1. handed \in 0..handed'
  <2>1. handed \in Nat /\ response.halves \in Nat
    BY CtxFacts DEF IInv
  <2>2. QED
    BY <2>1
<1>2. wire' = Row(Framed', Count(handed))
  BY DEF IInv, WireInv
<1>3. \A h : Count(h)' = Count(h)
  BY DEF Count
<1>4. \E h \in 0..handed' : wire' = Row(Framed', Count(h)')
  BY <1>1, <1>2, <1>3
<1>5. QED
  BY <1>4 DEF WireInv

(* The halves of a call are the next items of the row as it came, the frames
   that it completes those of the row that is re-framed. *)
LEMMA ItemsOfCall ==
  ASSUME TypeInv, NEW n \in 0..(response.halves - handed)
  PROVE  /\ Halves(n) = RowAfter(FALSE, handed, handed + n)
         /\ Blocks(n) = RowAfter(TRUE, handed \div 2, (handed + n) \div 2)
         /\ RowAfter(FALSE, 0, 0) = << >>
<1>1. handed \in Nat /\ n \in Nat
  BY CtxFacts
<1>2. (handed + n) - handed = n
  BY <1>1
<1>3. Halves(n) = RowAfter(FALSE, handed, handed + n)
  BY <1>2 DEF Halves, RowAfter
<1>4. Blocks(n) = RowAfter(TRUE, handed \div 2, (handed + n) \div 2)
  BY DEF Blocks, RowAfter
<1>5. RowAfter(FALSE, 0, 0) = << >>
  BY DEF RowAfter
<1>6. QED
  BY <1>3, <1>4, <1>5

(* What every call of the body filter leaves alone. *)
LEMMA BodyCommon ==
  ASSUME IInv, phase = "body", phase' \in {"body", "complete", "refused"},
         NEW n \in 0..(response.halves - handed), handed' = handed + n,
         NEW sent \in BOOLEAN,
         ctx' = ctx \/ ctx' = [ctx EXCEPT !.trailers_sent = sent],
         phase' = "body" => ctx'.trailers_sent = ctx.trailers_sent,
         UNCHANGED <<request, response, limit, shown>>
  PROVE  /\ TypeInv' /\ CtxInv' /\ ShownInv'
         /\ UNCHANGED <<Passes, Framed, IsNative, LocalStatus>>
<1>1. /\ ctx'.active = ctx.active /\ ctx'.text_response = ctx.text_response
      /\ ctx'.transform = ctx.transform /\ ctx'.local_error = ctx.local_error
  BY DEF IInv, TypeInv
<1>2. UNCHANGED <<IsNative, LocalStatus, TrailersOnly>>
  BY DEF IsNative, LocalStatus, TrailersOnly
<1>3. UNCHANGED Passes
  BY <1>1, <1>2 DEF Passes
<1>4. UNCHANGED Framed
  BY <1>1, <1>2, <1>3 DEF Framed
<1>5. TypeInv'
  <2>1. handed' \in 0..response.halves
    BY RowSteps DEF IInv
  <2> DEFINE Ctxs == [active : BOOLEAN, text_response : BOOLEAN, transform : BOOLEAN,
                      trailers_sent : BOOLEAN, local_error : Nat]
  <2>2. ctx' \in Ctxs
    BY DEF IInv, TypeInv
  <2>3. QED
    BY <2>1, <2>2 DEF IInv, TypeInv
<1>6. CtxInv'
  <2>1. /\ ctx'.transform => ctx'.active /\ (IsNative \/ LocalStatus # 0)
        /\ ctx'.active /\ (IsNative \/ LocalStatus # 0) => ctx'.transform
    BY <1>1 DEF IInv, CtxInv
  <2>2. ctx'.local_error = IF ctx'.transform /\ ~IsNative THEN LocalStatus ELSE 0
    BY <1>1 DEF IInv, CtxInv
  <2>3. /\ phase' = "body" /\ ~Passes => ctx'.trailers_sent = FALSE
        /\ phase' = "body" /\ ctx'.transform /\ Passes => ctx'.trailers_sent = TRUE
    BY <1>1 DEF IInv, CtxInv
  <2>4. QED
    BY <1>2, <1>3, <2>1, <2>2, <2>3 DEF CtxInv
<1>7. ShownInv'
  BY <1>1 DEF IInv, ShownInv, Untouched
<1>8. QED
  BY <1>2, <1>3, <1>4, <1>5, <1>6, <1>7

(* Whose turn a call is depends on what the header filter settled. *)
LEMMA BodyModes ==
  ASSUME IInv, phase = "body"
  PROVE  /\ (~ctx.transform \/ ctx.trailers_sent) => Passes
         /\ (ctx.transform /\ ~ctx.trailers_sent /\ ctx.local_error # 0)
              => ~Passes /\ ~IsNative /\ ctx.local_error = LocalStatus
         /\ (ctx.transform /\ ~ctx.trailers_sent /\ ctx.local_error = 0)
              => ~Passes /\ IsNative /\ (Framed <=> ctx.text_response)
<1>1. (~ctx.transform \/ ctx.trailers_sent) => Passes
  BY DEF IInv, CtxInv, Passes
<1>2. (ctx.transform /\ ~ctx.trailers_sent) => ~Passes
  BY DEF IInv, CtxInv
<1>3. ctx.transform /\ ctx.local_error # 0 => ~IsNative /\ ctx.local_error = LocalStatus
  BY DEF IInv, CtxInv
<1>4. ctx.transform /\ ctx.local_error = 0 => IsNative
  BY DEF IInv, CtxInv
<1>5. ~Passes /\ IsNative => (Framed <=> ctx.text_response)
  BY DEF Framed
<1>6. QED
  BY <1>1, <1>2, <1>3, <1>4, <1>5

LEMMA PassBodyIInv ==
  ASSUME IInv, phase = "body",
         NEW n \in 0..(response.halves - handed), handed' = handed + n,
         NEW last \in BOOLEAN, PassBody(n, last),
         UNCHANGED <<request, response, limit, shown>>
  PROVE  IInv'
<1>1. Passes
  BY BodyModes DEF PassBody
<1>2. phase' \in {"body", "complete"} /\ ctx' = ctx
  BY DEF PassBody, Send
<1>3. /\ TypeInv' /\ CtxInv' /\ ShownInv'
      /\ UNCHANGED <<Passes, Framed, IsNative, LocalStatus>>
  BY <1>2, BodyCommon
<1>4. ~Framed /\ Count(handed) = handed /\ Count(handed + n) = handed + n
      /\ Terminal = <<End>>
  BY <1>1 DEF Framed, Count, Terminal
<1>5. Framed = FALSE
  BY <1>4, CtxFacts DEF IInv
<1>6. Halves(n) = RowAfter(Framed, Count(handed), Count(handed + n))
  BY <1>4, <1>5, ItemsOfCall DEF IInv
<1>7. Halves(n) \o Ending(last)
        = IF last
          THEN RowAfter(Framed, Count(handed), Count(handed + n)) \o Terminal
          ELSE RowAfter(Framed, Count(handed), Count(handed + n))
  <2>1. Halves(n) \o << >> = Halves(n)
    <3>1. Halves(n) \in Seq(Items)
      BY <1>6, RowAfterFacts, RowSteps DEF IInv
    <3>2. QED
      BY <3>1
  <2>2. QED
    BY <1>4, <1>6, <2>1 DEF Ending
<1>8. Send(Halves(n) \o Ending(last), last)
  BY DEF PassBody
<1>9. WireInv'
  <2> DEFINE items == Halves(n) \o Ending(last)
  <2>1. items = IF last
                THEN RowAfter(Framed, Count(handed), Count(handed + n)) \o Terminal
                ELSE RowAfter(Framed, Count(handed), Count(handed + n))
    BY <1>7
  <2>2. Send(items, last)
    BY <1>8
  <2> HIDE DEF items
  <2>3. QED
    BY <1>1, <1>3, <2>1, <2>2, SendWire
<1>10. RefusedForCause'
  BY <1>2 DEF RefusedForCause
<1>11. QED
  BY <1>3, <1>9, <1>10 DEF IInv

LEMMA LocalErrorBodyIInv ==
  ASSUME IInv, phase = "body",
         NEW n \in 0..(response.halves - handed), handed' = handed + n,
         NEW last \in BOOLEAN, LocalErrorBody(n, last),
         UNCHANGED <<request, response, limit, shown>>
  PROVE  IInv'
<1>1. ~Passes /\ ~IsNative /\ ctx.local_error = LocalStatus /\ ctx.transform
      /\ ctx.local_error # 0 /\ ~ctx.trailers_sent
  BY BodyModes DEF LocalErrorBody
<1>2. CASE last /\ StatusSize > limit
  <2>1. phase' = "refused" /\ UNCHANGED <<ctx, wire>>
    BY <1>2 DEF LocalErrorBody, Break
  <2>2. /\ TypeInv' /\ CtxInv' /\ ShownInv'
        /\ UNCHANGED <<Passes, Framed, IsNative, LocalStatus>>
    BY <2>1, BodyCommon
  <2>3. WireInv'
    BY <2>1, <2>2, BreakWire
  <2>4. RefusedForCause'
    BY <1>1, <1>2, <2>1 DEF RefusedForCause
  <2>5. QED
    BY <2>2, <2>3, <2>4 DEF IInv
<1>3. CASE ~(last /\ StatusSize > limit)
  <2> DEFINE items == IF last THEN <<Status(ctx.local_error), End>> ELSE << >>
  <2>1. Send(items, last) /\ ctx' = [ctx EXCEPT !.trailers_sent = last]
    BY <1>3 DEF LocalErrorBody
  <2>2. phase' \in {"body", "complete"} /\ (phase' = "body" => ~last)
    BY <2>1 DEF Send
  <2>3. phase' = "body" => ctx'.trailers_sent = ctx.trailers_sent
    BY <1>1, <2>1, <2>2 DEF IInv, TypeInv
  <2>4. /\ TypeInv' /\ CtxInv' /\ ShownInv'
        /\ UNCHANGED <<Passes, Framed, IsNative, LocalStatus>>
    BY <2>1, <2>2, <2>3, BodyCommon
  <2>5. ~Framed /\ Count(handed) = 0 /\ Count(handed + n) = 0
        /\ Terminal = <<Status(ctx.local_error), End>>
    BY <1>1 DEF Framed, Count, Terminal
  <2>6. Framed = FALSE
    BY <2>5, CtxFacts DEF IInv
  <2>7. RowAfter(Framed, Count(handed), Count(handed + n)) = << >>
    BY <2>5, <2>6, ItemsOfCall DEF IInv
  <2>8. items = IF last
                THEN RowAfter(Framed, Count(handed), Count(handed + n)) \o Terminal
                ELSE RowAfter(Framed, Count(handed), Count(handed + n))
    <3>1. << >> \o Terminal = Terminal
      <4>1. Terminal \in Seq(Items)
        BY TerminalFacts DEF IInv
      <4>2. QED
        BY <4>1
    <3>2. QED
      BY <2>5, <2>7, <3>1
  <2> HIDE DEF items
  <2>9. WireInv'
    BY <1>1, <2>1, <2>4, <2>8, SendWire
  <2>10. RefusedForCause'
    BY <2>2 DEF RefusedForCause
  <2>11. QED
    BY <2>4, <2>9, <2>10 DEF IInv
<1>4. QED
  BY <1>2, <1>3

LEMMA WithTrailersIInv ==
  ASSUME IInv, phase = "body",
         NEW n \in 0..(response.halves - handed), handed' = handed + n,
         NEW last \in BOOLEAN, last => response.clean,
         ctx.transform, ~ctx.trailers_sent, ~Passes, IsNative,
         NEW items, items = RowAfter(Framed, Count(handed), Count(handed + n)),
         WithTrailers(items, last),
         UNCHANGED <<request, response, limit, shown>>
  PROVE  IInv'
<1>1. response.trailer \in Nat /\ limit \in Nat
  BY ResponseAssumption DEF IInv, TypeInv
<1>2. CASE last /\ ~TrailersFit
  <2>1. phase' = "refused" /\ UNCHANGED <<ctx, wire>>
    BY <1>2 DEF WithTrailers, Break
  <2>2. /\ TypeInv' /\ CtxInv' /\ ShownInv'
        /\ UNCHANGED <<Passes, Framed, IsNative, LocalStatus>>
    BY <2>1, BodyCommon
  <2>3. WireInv'
    BY <2>1, <2>2, BreakWire
  <2>4. response.trailer = 0 \/ response.trailer > limit
    BY <1>1, <1>2 DEF TrailersFit
  <2>5. RefusedForCause'
    BY <1>2, <2>1, <2>2, <2>4 DEF RefusedForCause
  <2>6. QED
    BY <2>2, <2>3, <2>5 DEF IInv
<1>3. CASE ~(last /\ ~TrailersFit)
  <2> DEFINE sent == IF last THEN items \o <<Trailer, End>> ELSE items
  <2>1. Send(sent, last) /\ ctx' = [ctx EXCEPT !.trailers_sent = last]
    BY <1>3 DEF WithTrailers
  <2>2. phase' \in {"body", "complete"} /\ (phase' = "body" => ~last)
    BY <2>1 DEF Send
  <2>3. phase' = "body" => ctx'.trailers_sent = ctx.trailers_sent
    BY <2>1, <2>2 DEF IInv, TypeInv
  <2>4. /\ TypeInv' /\ CtxInv' /\ ShownInv'
        /\ UNCHANGED <<Passes, Framed, IsNative, LocalStatus>>
    BY <2>1, <2>2, <2>3, BodyCommon
  <2>5. Terminal = <<Trailer, End>>
    BY DEF Terminal
  <2>6. sent = IF last
               THEN RowAfter(Framed, Count(handed), Count(handed + n)) \o Terminal
               ELSE RowAfter(Framed, Count(handed), Count(handed + n))
    BY <2>5
  <2>7. last => response.clean /\ response.trailer # 0
    BY <1>3 DEF TrailersFit
  <2> HIDE DEF sent
  <2>8. WireInv'
    BY <2>1, <2>4, <2>6, <2>7, SendWire
  <2>9. RefusedForCause'
    BY <2>2 DEF RefusedForCause
  <2>10. QED
    BY <2>4, <2>8, <2>9 DEF IInv
<1>4. QED
  BY <1>2, <1>3

LEMMA BinaryBodyIInv ==
  ASSUME IInv, phase = "body",
         NEW n \in 0..(response.halves - handed), handed' = handed + n,
         NEW last \in BOOLEAN, last => response.clean, BinaryBody(n, last),
         UNCHANGED <<request, response, limit, shown>>
  PROVE  IInv'
<1>1. /\ ~Passes /\ IsNative /\ ~Framed
      /\ ctx.transform /\ ~ctx.trailers_sent
  BY BodyModes DEF BinaryBody
<1>2. Framed = FALSE
  BY <1>1, CtxFacts DEF IInv
<1>3. Count(handed) = handed /\ Count(handed + n) = handed + n
  BY <1>1 DEF Count
<1>4. Halves(n) = RowAfter(Framed, Count(handed), Count(handed + n))
  BY <1>2, <1>3, ItemsOfCall DEF IInv
<1>5. WithTrailers(Halves(n), last)
  BY DEF BinaryBody
<1>6. QED
  BY <1>1, <1>4, <1>5, WithTrailersIInv

LEMMA TextBodyIInv ==
  ASSUME IInv, phase = "body",
         NEW n \in 0..(response.halves - handed), handed' = handed + n,
         NEW last \in BOOLEAN, last => handed + n = response.halves /\ response.clean,
         TextBody(n, last),
         UNCHANGED <<request, response, limit, shown>>
  PROVE  IInv'
<1>1. /\ ~Passes /\ IsNative /\ Framed
      /\ ctx.transform /\ ~ctx.trailers_sent /\ ctx.text_response
  BY BodyModes DEF TextBody
<1>2. CASE Oversized(n) \/ (last /\ Incomplete(n))
  <2>1. phase' = "refused" /\ UNCHANGED <<ctx, wire>>
    BY <1>2 DEF TextBody, Break
  <2>2. /\ TypeInv' /\ CtxInv' /\ ShownInv'
        /\ UNCHANGED <<Passes, Framed, IsNative, LocalStatus>>
    BY <2>1, BodyCommon
  <2>3. WireInv'
    BY <2>1, <2>2, BreakWire
  <2>4. response.big # 0 \/ (response.clean /\ response.halves % 2 # 0)
    BY <1>2 DEF Oversized, Incomplete
  <2>5. RefusedForCause'
    BY <1>1, <2>1, <2>2, <2>4 DEF RefusedForCause
  <2>6. QED
    BY <2>2, <2>3, <2>5 DEF IInv
<1>3. CASE ~(Oversized(n) \/ (last /\ Incomplete(n)))
  <2>1. Framed = TRUE
    BY <1>1, CtxFacts DEF IInv
  <2>2. Count(handed) = handed \div 2 /\ Count(handed + n) = (handed + n) \div 2
    BY <1>1 DEF Count
  <2>3. Blocks(n) = RowAfter(Framed, Count(handed), Count(handed + n))
    BY <2>1, <2>2, ItemsOfCall DEF IInv
  <2>4. WithTrailers(Blocks(n), last)
    BY <1>3 DEF TextBody
  <2>5. QED
    BY <1>1, <2>3, <2>4, WithTrailersIInv
<1>4. QED
  BY <1>2, <1>3

LEMMA BodyFilterIInv ==
  ASSUME IInv, NEW n \in 0..(response.halves - handed), NEW last \in BOOLEAN,
         BodyFilter(n, last)
  PROVE  IInv'
<1>1. /\ phase = "body" /\ handed' = handed + n
      /\ last => handed + n = response.halves /\ response.clean
      /\ UNCHANGED <<request, response, limit, shown>>
  BY DEF BodyFilter, env
<1>2. CASE PassBody(n, last)
  BY <1>1, <1>2, PassBodyIInv
<1>3. CASE LocalErrorBody(n, last)
  BY <1>1, <1>3, LocalErrorBodyIInv
<1>4. CASE BinaryBody(n, last)
  BY <1>1, <1>4, BinaryBodyIInv
<1>5. CASE TextBody(n, last)
  BY <1>1, <1>5, TextBodyIInv
<1>6. QED
  BY <1>2, <1>3, <1>4, <1>5 DEF BodyFilter

(* Giving up, at any time, and an upstream that breaks. *)
LEMMA CutIInv ==
  ASSUME IInv, phase \in {"rewrite", "header", "body"}, phase' = "cut",
         UNCHANGED <<env, ctx, shown, handed, wire>>
  PROVE  IInv'
<1> USE DEF env
<1>1. TypeInv'
  BY DEF IInv, TypeInv
<1>2. UNCHANGED <<IsNative, LocalStatus, TrailersOnly, Passes, Framed>>
  BY DEF IsNative, LocalStatus, TrailersOnly, Passes, Framed
<1>3. CtxInv'
  BY <1>2 DEF IInv, CtxInv
<1>4. ShownInv' /\ RefusedForCause'
  BY DEF ShownInv, RefusedForCause
<1>5. WireInv'
  <2>1. \E h \in 0..handed : wire = Row(Framed, Count(h))
    <3>1. handed \in Nat
      BY CtxFacts DEF IInv
    <3>2. CASE phase = "body"
      <4>1. handed \in 0..handed /\ wire = Row(Framed, Count(handed))
        BY <3>1, <3>2 DEF IInv, WireInv
      <4>2. QED
        BY <4>1
    <3>3. CASE phase # "body"
      <4>1. wire = << >> /\ handed = 0
        BY <3>3 DEF IInv, WireInv
      <4>2. Count(0) = 0
        BY CtxFacts DEF IInv
      <4>3. wire = Row(Framed, Count(0)) /\ 0 \in 0..handed
        BY <4>1, <4>2, EmptyRow
      <4>4. QED
        BY <4>3
    <3>4. QED
      BY <3>2, <3>3
  <2>2. \A h : Count(h)' = Count(h)
    BY <1>2 DEF Count
  <2>3. \E h \in 0..handed' : wire' = Row(Framed', Count(h)')
    BY <1>2, <2>1, <2>2
  <2>4. QED
    BY <2>3 DEF WireInv
<1>6. QED
  BY <1>1, <1>3, <1>4, <1>5 DEF IInv

LEMMA StutterIInv ==
  ASSUME IInv, UNCHANGED vars
  PROVE  IInv'
<1> USE DEF vars, env
<1>1. TypeInv'
  BY DEF IInv, TypeInv
<1>2. UNCHANGED <<IsNative, LocalStatus, TrailersOnly, Passes, Framed>>
  BY DEF IsNative, LocalStatus, TrailersOnly, Passes, Framed
<1>3. CtxInv'
  BY <1>2 DEF IInv, CtxInv
<1>4. ShownInv'
  BY DEF IInv, ShownInv, Untouched
<1>5. WireInv'
  <2>1. UNCHANGED Terminal /\ \A h : Count(h)' = Count(h)
    BY <1>2 DEF Terminal, Count
  <2>2. QED
    BY <1>2, <2>1 DEF IInv, WireInv
<1>6. RefusedForCause'
  BY <1>2 DEF IInv, RefusedForCause
<1>7. QED
  BY <1>1, <1>3, <1>4, <1>5, <1>6 DEF IInv

LEMMA SpecIInv == Spec => []IInv
<1>1. Init => IInv
  BY InitIInv
<1>2. IInv /\ [Next]_vars => IInv'
  <2> SUFFICES ASSUME IInv, [Next]_vars
               PROVE  IInv'
    OBVIOUS
  <2>1. CASE \E enabled, again \in BOOLEAN : RewriteHandler(enabled, again)
    BY <2>1, RewriteIInv
  <2>2. CASE PassHeaders
    BY <2>2, PassHeadersIInv
  <2>3. CASE LocalError
    BY <2>3, LocalErrorIInv
  <2>4. CASE NativeHeaders
    BY <2>4, NativeHeadersIInv
  <2>5. CASE \E n \in 0..(response.halves - handed), last \in BOOLEAN : BodyFilter(n, last)
    BY <2>5, BodyFilterIInv
  <2>6. CASE UpstreamFails
    BY <2>6, CutIInv DEF UpstreamFails
  <2>7. CASE GiveUp
    BY <2>7, CutIInv DEF GiveUp
  <2>8. CASE Over \/ UNCHANGED vars
    BY <2>8, StutterIInv DEF Over
  <2>9. QED
    BY <2>1, <2>2, <2>3, <2>4, <2>5, <2>6, <2>7, <2>8 DEF Next
<1>3. QED
  BY <1>1, <1>2, PTL DEF Spec

-----------------------------------------------------------------------------
(* Whose the request is.                                                   *)

(* What the header says of it follows from whether it was adopted. *)
AdoptInv ==
  /\ offered \in BOOLEAN
  /\ ctx.active <=> (offered /\ request.media \in {"web", "web-text"})
  /\ ctx.active => ctx.text_response = request.accept_text
  /\ media = IF ctx.active THEN "grpc" ELSE request.media

LEMMA RewriteAdoptInv ==
  ASSUME IInv, AdoptInv, NEW enabled \in BOOLEAN, NEW again \in BOOLEAN,
         RewriteHandler(enabled, again)
  PROVE  AdoptInv'
<1>1. /\ offered' = (offered \/ enabled) /\ request' = request
      /\ IF Adopts(enabled)
         THEN /\ ctx' = [NoCtx EXCEPT !.active = TRUE, !.text_response = request.accept_text]
              /\ media' = "grpc"
         ELSE UNCHANGED <<ctx, media>>
  BY DEF RewriteHandler, env
<1>2. CASE Adopts(enabled)
  <2>1. ctx'.active = TRUE /\ ctx'.text_response = request.accept_text /\ media' = "grpc"
    BY <1>1, <1>2 DEF NoCtx
  <2>2. enabled = TRUE /\ request.media \in {"web", "web-text"}
    BY <1>2 DEF Adopts, AdoptInv
  <2>3. offered' = TRUE
    BY <1>1, <2>2
  <2>4. QED
    BY <1>1, <2>1, <2>2, <2>3 DEF AdoptInv
<1>3. CASE ~Adopts(enabled)
  <2>1. UNCHANGED <<ctx, media, request>>
    BY <1>1, <1>3
  <2>2. CASE enabled
    <3>1. ctx.active \/ request.media \notin {"web", "web-text"}
      BY <1>3, <2>2 DEF Adopts, AdoptInv
    <3>2. offered' = TRUE
      BY <1>1, <2>2
    <3>3. QED
      BY <2>1, <3>1, <3>2 DEF AdoptInv
  <2>3. CASE ~enabled
    <3>1. offered' = offered
      BY <1>1, <2>3 DEF AdoptInv
    <3>2. QED
      BY <2>1, <3>1 DEF AdoptInv
  <2>4. QED
    BY <2>2, <2>3
<1>4. QED
  BY <1>2, <1>3

(* Every other hook keeps it. *)
LEMMA KeptAdoptInv ==
  ASSUME AdoptInv, UNCHANGED <<request, passes, media>>,
         ctx'.active = ctx.active, ctx'.text_response = ctx.text_response
  PROVE  AdoptInv'
  BY DEF AdoptInv, passes

LEMMA NextAdoptInv ==
  ASSUME IInv, AdoptInv, [Next]_vars
  PROVE  AdoptInv'
<1> DEFINE Kept == /\ UNCHANGED <<request, passes, media>>
                   /\ ctx'.active = ctx.active /\ ctx'.text_response = ctx.text_response
<1>1. CASE \E enabled, again \in BOOLEAN : RewriteHandler(enabled, again)
  BY <1>1, RewriteAdoptInv
<1>2. CASE PassHeaders \/ UpstreamFails \/ GiveUp \/ Over \/ UNCHANGED vars
  <2>1. Kept
    BY <1>2 DEF PassHeaders, UpstreamFails, GiveUp, Over, vars, env
  <2>2. QED
    BY <2>1, KeptAdoptInv
<1>3. CASE LocalError \/ NativeHeaders
  <2>1. Kept
    BY <1>3 DEF LocalError, NativeHeaders, env, IInv, TypeInv
  <2>2. QED
    BY <2>1, KeptAdoptInv
<1>4. ASSUME NEW n \in 0..(response.halves - handed), NEW last \in BOOLEAN,
             BodyFilter(n, last)
      PROVE  AdoptInv'
  <2>1. ctx' = ctx \/ ctx' = [ctx EXCEPT !.trailers_sent = last]
    BY <1>4 DEF BodyFilter, PassBody, LocalErrorBody, BinaryBody, TextBody, WithTrailers,
       Break
  <2>2. Kept
    BY <1>4, <2>1 DEF BodyFilter, env, IInv, TypeInv
  <2>3. QED
    BY <2>2, KeptAdoptInv
<1>5. QED
  BY <1>1, <1>2, <1>3, <1>4 DEF Next

LEMMA SpecAdoptInv == Spec => []AdoptInv
<1>1. ASSUME Init
      PROVE  AdoptInv
  <2>1. ctx.active = FALSE
    BY <1>1 DEF Init, NoCtx
  <2>2. offered = FALSE /\ media = request.media
    BY <1>1 DEF Init
  <2>3. QED
    BY <2>1, <2>2 DEF AdoptInv
<1>2. IInv /\ AdoptInv /\ [Next]_vars => AdoptInv'
  BY NextAdoptInv
<1>3. QED
  BY <1>1, <1>2, SpecIInv, PTL DEF Spec

-----------------------------------------------------------------------------
(* What the invariant says of the wire, item by item.                      *)

(* The first m items of the wire are the body's, the rest its end. *)
Layout(m) ==
  /\ wire \in Seq(Items)
  /\ \A i \in 1..m : wire[i] = IF Framed THEN Block(i) ELSE Half(i)
  /\ phase # "complete" => Len(wire) = m
  /\ phase = "complete" /\ Passes => Len(wire) = m + 1 /\ wire[m + 1] = End
  /\ phase = "complete" /\ ~Passes =>
       /\ Len(wire) = m + 2 /\ wire[m + 2] = End
       /\ wire[m + 1] = IF IsNative THEN Trailer ELSE Status(LocalStatus)
  /\ phase \in {"body", "complete"} => m = Count(handed)
  /\ IsNative /\ TrailersOnly => m = 0

LEMMA LayoutFacts ==
  ASSUME IInv
  PROVE  \E m \in Nat : Layout(m)
<1>1. Framed \in BOOLEAN /\ handed \in Nat
  BY CtxFacts DEF IInv
<1>2. ASSUME NEW h \in 0..handed
      PROVE  IsNative /\ TrailersOnly => Count(h) = 0
  <2>1. IsNative /\ TrailersOnly => Passes /\ h = 0
    BY <1>1, TrailersOnlyFacts DEF IInv, TypeInv, Passes
  <2>2. QED
    BY <2>1 DEF Count
<1>3. CASE phase \in {"rewrite", "header"}
  <2>1. wire = Row(Framed, 0)
    BY <1>3, EmptyRow DEF IInv, WireInv
  <2>2. Layout(0)
    BY <1>1, <1>3, <2>1, RowFacts DEF Layout
  <2>3. QED
    BY <2>2
<1>4. CASE phase \in {"body", "refused", "cut"}
  <2>1. PICK h \in 0..handed : wire = Row(Framed, Count(h)) /\ (phase = "body" => h = handed)
    <3>1. handed \in 0..handed
      BY <1>1
    <3>2. QED
      BY <1>4, <3>1 DEF IInv, WireInv
  <2>2. Count(h) \in Nat
    BY CtxFacts DEF IInv
  <2>3. /\ wire \in Seq(Items) /\ Len(wire) = Count(h)
        /\ \A i \in 1..Count(h) : wire[i] = IF Framed THEN Block(i) ELSE Half(i)
    BY <1>1, <2>1, <2>2, RowFacts
  <2>4. Layout(Count(h))
    BY <1>2, <1>4, <2>1, <2>3 DEF Layout
  <2>5. QED
    BY <2>2, <2>4
<1>5. CASE phase = "complete"
  <2> DEFINE m == Count(handed)
             row == Row(Framed, m)
             n == Len(Terminal)
  <2>1. m \in Nat
    BY <1>1, CtxFacts DEF IInv
  <2>2. /\ row \in Seq(Items) /\ Len(row) = m
        /\ \A i \in 1..m : row[i] = IF Framed THEN Block(i) ELSE Half(i)
    BY <1>1, <2>1, RowFacts
  <2>3. Terminal \in Seq(Items)
    BY TerminalFacts DEF IInv
  <2>4. /\ Passes => n = 1 /\ Terminal[1] = End
        /\ ~Passes => n = 2 /\ Terminal[2] = End
             /\ Terminal[1] = IF IsNative THEN Trailer ELSE Status(LocalStatus)
    BY DEF Terminal
  <2>5. wire = row \o Terminal
    BY <1>5 DEF IInv, WireInv
  <2>6. IsNative /\ TrailersOnly => m = 0
    <3>1. handed \in 0..handed
      BY <1>1
    <3>2. QED
      BY <1>2, <3>1
  <2>7. m = Count(handed)
    OBVIOUS
  <2> HIDE DEF m, row
  <2>8. /\ wire \in Seq(Items) /\ Len(wire) = m + n
        /\ \A i \in 1..m : wire[i] = row[i]
        /\ \A i \in 1..n : wire[m + i] = Terminal[i]
    <3>1. /\ row \o Terminal \in Seq(Items) /\ Len(row \o Terminal) = Len(row) + n
          /\ \A i \in 1..Len(row) : (row \o Terminal)[i] = row[i]
          /\ \A i \in 1..n : (row \o Terminal)[Len(row) + i] = Terminal[i]
      <4>1. row \in Seq(Items) /\ Terminal \in Seq(Items)
        BY <2>2, <2>3
      <4>2. QED
        BY <4>1, ConcatProperties
    <3>2. QED
      BY <2>2, <2>5, <3>1
  <2> HIDE DEF n
  <2>9. Passes => Len(wire) = m + 1 /\ wire[m + 1] = End
    BY <2>4, <2>8
  <2>10. ~Passes => /\ Len(wire) = m + 2 /\ wire[m + 2] = End
                    /\ wire[m + 1] = IF IsNative THEN Trailer ELSE Status(LocalStatus)
    BY <2>4, <2>8
  <2>11. Layout(m)
    BY <1>5, <2>2, <2>6, <2>7, <2>8, <2>9, <2>10 DEF Layout
  <2>12. QED
    BY <2>1, <2>11
<1>6. QED
  BY <1>3, <1>4, <1>5 DEF IInv, TypeInv

(* The body's items are neither a status nor the end. *)
LEMMA LayoutKinds ==
  ASSUME IInv, NEW m \in Nat, Layout(m)
  PROVE  /\ \A i \in 1..m : wire[i].what \in {"half", "block"} /\ wire[i] # End
         /\ Len(wire) \in Nat
         /\ phase = "complete" => Len(wire) > m
<1>1. ASSUME NEW i \in 1..m
      PROVE  wire[i].what \in {"half", "block"} /\ wire[i] # End
  BY ItemFacts DEF Layout
<1>2. Len(wire) \in Nat /\ (phase = "complete" => Len(wire) > m)
  BY DEF Layout
<1>3. QED
  BY <1>1, <1>2

LEMMA OneStatusHolds ==
  ASSUME IInv
  PROVE  OneStatus
<1>1. PICK m \in Nat : Layout(m)
  BY LayoutFacts
<1>2. /\ \A i \in 1..m : wire[i].what \in {"half", "block"} /\ wire[i] # End
      /\ Len(wire) \in Nat
      /\ phase = "complete" => Len(wire) > m
  BY <1>1, LayoutKinds
<1>3. LocalStatus \in Nat
  BY CtxFacts DEF IInv
<1>4. CASE phase # "complete"
  <2>1. Len(wire) = m
    BY <1>1, <1>4 DEF Layout
  <2>2. Statuses = {}
    BY <1>2, <2>1 DEF Statuses
  <2>3. ~Ended(wire)
    <3>1. wire # << >> => Len(wire) \in 1..m
      BY <1>1, <1>2, <2>1 DEF Layout
    <3>2. QED
      BY <1>2, <3>1 DEF Ended
  <2>4. \A i \in 1..Len(wire) : wire[i] = End => i = Len(wire)
    BY <1>2, <2>1
  <2>5. QED
    BY <1>4, <2>2, <2>3, <2>4 DEF OneStatus
<1>5. CASE phase = "complete" /\ Passes
  <2>1. Len(wire) = m + 1 /\ wire[m + 1] = End
    BY <1>1, <1>5 DEF Layout
  <2>2. Ended(wire)
    BY <1>1, <2>1 DEF Ended, Layout
  <2>3. \A i \in 1..Len(wire) : i \in 1..m \/ i = Len(wire)
    BY <2>1
  <2>4. Statuses = {}
    BY <1>2, <2>1, <2>3, ItemFacts DEF Statuses
  <2>5. ctx.transform => shown.status_header
    <3>1. ctx.transform => IsNative /\ TrailersOnly
      BY <1>5 DEF Passes
    <3>2. shown.status_header = response.status_header
      BY <1>5 DEF IInv, ShownInv
    <3>3. QED
      BY <3>1, <3>2 DEF TrailersOnly
  <2>6. QED
    BY <1>2, <1>5, <2>2, <2>3, <2>4, <2>5 DEF OneStatus
<1>6. CASE phase = "complete" /\ ~Passes
  <2>1. /\ Len(wire) = m + 2 /\ wire[m + 2] = End
        /\ wire[m + 1] = IF IsNative THEN Trailer ELSE Status(LocalStatus)
    BY <1>1, <1>6 DEF Layout
  <2>2. Ended(wire)
    BY <1>1, <2>1 DEF Ended, Layout
  <2>3. \A i \in 1..Len(wire) : i \in 1..m \/ i = Len(wire) - 1 \/ i = Len(wire)
    BY <2>1
  <2>4. Len(wire) - 1 = m + 1 /\ m + 1 \in 1..Len(wire)
    BY <2>1
  <2>5. wire[m + 1].what \in {"trailer", "status"} /\ wire[m + 1] # End
    BY <1>3, <2>1, ItemFacts
  <2>6. Statuses = {Len(wire) - 1}
    <3>1. m + 1 \in Statuses
      BY <2>4, <2>5 DEF Statuses
    <3>2. \A i \in Statuses : i = Len(wire) - 1
      BY <1>2, <2>1, <2>3, ItemFacts DEF Statuses
    <3>3. QED
      BY <2>4, <3>1, <3>2
  <2>7. \A i \in 1..Len(wire) : wire[i] = End => i = Len(wire)
    BY <1>2, <2>3, <2>4, <2>5
  <2>8. ~shown.status_header
    <3>1. shown.status_header = response.status_header
      BY <1>6 DEF IInv, ShownInv
    <3>2. ~(IsNative /\ TrailersOnly)
      BY <1>6 DEF Passes
    <3>3. QED
      BY <3>1, <3>2, TrailersOnlyFacts DEF IInv
  <2>9. QED
    BY <1>6, <2>2, <2>6, <2>7, <2>8 DEF OneStatus
<1>7. QED
  BY <1>4, <1>5, <1>6

LEMMA NoForgedStatusHolds ==
  ASSUME IInv
  PROVE  NoForgedStatus
<1>1. PICK m \in Nat : Layout(m)
  BY LayoutFacts
<1>2. /\ \A i \in 1..m : wire[i].what \in {"half", "block"}
      /\ Len(wire) \in Nat
  BY <1>1, LayoutKinds
<1>3. ASSUME NEW i \in Statuses
      PROVE  \/ wire[i] = Trailer /\ IsNative /\ response.clean /\ response.trailer # 0
             \/ ~IsNative /\ LocalStatus # 0 /\ wire[i] = Status(LocalStatus)
  <2>1. i \in 1..Len(wire) /\ wire[i].what \in {"trailer", "status"}
    BY DEF Statuses
  <2>2. i \notin 1..m
    BY <1>2, <2>1
  <2>3. phase = "complete"
    BY <1>1, <2>1, <2>2 DEF Layout
  <2>4. ~Passes
    <3>1. Passes => i = m + 1 /\ wire[i] = End
      BY <1>1, <2>1, <2>2, <2>3 DEF Layout
    <3>2. QED
      BY <2>1, <3>1, ItemFacts
  <2>5. /\ Len(wire) = m + 2 /\ wire[m + 2] = End
        /\ wire[m + 1] = IF IsNative THEN Trailer ELSE Status(LocalStatus)
    BY <1>1, <2>3, <2>4 DEF Layout
  <2>6. i = m + 1
    <3>1. i = m + 1 \/ i = m + 2
      BY <2>1, <2>2, <2>5
    <3>2. QED
      BY <2>1, <2>5, <3>1, ItemFacts
  <2>7. IsNative => response.clean /\ response.trailer # 0
    BY <2>3, <2>4 DEF IInv, WireInv
  <2>8. ~IsNative => LocalStatus # 0
    BY <2>4 DEF IInv, CtxInv, Passes
  <2>9. QED
    BY <2>5, <2>6, <2>7, <2>8
<1>4. QED
  BY <1>3 DEF NoForgedStatus

LEMMA OnlyOwnResponsesHolds ==
  ASSUME IInv, AdoptInv
  PROVE  OnlyOwnResponses
<1> SUFFICES ASSUME phase \in {"body", "complete"}
             PROVE  /\ ctx.active <=> (offered /\ request.media \in {"web", "web-text"})
                    /\ ctx.active => ctx.text_response = request.accept_text
                    /\ ctx.transform <=> (ctx.active /\ (IsNative \/ LocalStatus # 0))
                    /\ ~ctx.transform =>
                         /\ shown = Untouched
                         /\ wire = [i \in 1..handed |-> Half(i)] \o Ending(phase = "complete")
                    /\ ctx.local_error # 0 => \A i \in 1..Len(wire) : wire[i].what # "half"
  BY DEF OnlyOwnResponses
<1>1. ctx.transform <=> (ctx.active /\ (IsNative \/ LocalStatus # 0))
  <2>1. ctx.transform \in BOOLEAN
    BY DEF IInv, TypeInv
  <2>2. QED
    BY <2>1 DEF IInv, CtxInv
<1>2. ASSUME ~ctx.transform
      PROVE  /\ shown = Untouched
             /\ wire = [i \in 1..handed |-> Half(i)] \o Ending(phase = "complete")
  <2>1. Passes /\ Framed = FALSE /\ Count(handed) = handed /\ Terminal = <<End>>
    BY <1>2 DEF Passes, Framed, Count, Terminal
  <2>2. Row(Framed, Count(handed)) = [i \in 1..handed |-> Half(i)]
    BY <2>1 DEF Row
  <2>3. CASE phase = "complete"
    BY <1>2, <2>1, <2>2, <2>3 DEF IInv, ShownInv, WireInv, Ending
  <2>4. CASE phase = "body"
    <3>1. wire = [i \in 1..handed |-> Half(i)] /\ shown = Untouched
      BY <1>2, <2>2, <2>4 DEF IInv, ShownInv, WireInv
    <3>2. wire \in Seq(Items)
      <4>1. \E m \in Nat : Layout(m)
        BY LayoutFacts
      <4>2. QED
        BY <4>1 DEF Layout
    <3>3. Ending(phase = "complete") = << >>
      BY <2>4 DEF Ending
    <3>4. wire \o << >> = wire
      BY <3>2
    <3>5. QED
      BY <3>1, <3>3, <3>4
  <2>5. QED
    BY <2>3, <2>4
<1>3. ASSUME ctx.local_error # 0
      PROVE  \A i \in 1..Len(wire) : wire[i].what # "half"
  <2>1. ~IsNative /\ ctx.transform
    BY <1>3 DEF IInv, CtxInv
  <2>2. ~Passes /\ Count(handed) = 0
    BY <2>1 DEF Passes, Count
  <2>3. PICK m \in Nat : Layout(m)
    BY LayoutFacts
  <2>4. m = 0
    BY <2>2, <2>3 DEF Layout
  <2>5. CASE phase = "body"
    <3>1. Len(wire) = 0
      BY <2>3, <2>4, <2>5 DEF Layout
    <3>2. QED
      BY <3>1
  <2>6. CASE phase = "complete"
    <3>1. Len(wire) = 2 /\ wire[1] = Status(LocalStatus) /\ wire[2] = End
      BY <2>1, <2>2, <2>3, <2>4, <2>6 DEF Layout
    <3>2. \A i \in 1..Len(wire) : i = 1 \/ i = 2
      BY <3>1
    <3>3. Status(LocalStatus).what = "status" /\ End.what = "end"
      BY DEF Status, End
    <3>4. QED
      BY <3>1, <3>2, <3>3
  <2>7. QED
    BY <2>5, <2>6
<1>4. QED
  BY <1>1, <1>2, <1>3 DEF AdoptInv

LEMMA MessagesInOrderHolds ==
  ASSUME IInv
  PROVE  MessagesInOrder
<1> SUFFICES ASSUME IsNative, ctx.transform
             PROVE  \E n \in 0..Len(wire) :
                      /\ \A i \in 1..n : wire[i] = IF ctx.text_response THEN Block(i) ELSE Half(i)
                      /\ \A i \in (n + 1)..Len(wire) : wire[i].what \in {"trailer", "end"}
                      /\ phase \in {"body", "complete"} =>
                           n = IF ctx.text_response THEN handed \div 2 ELSE handed
  BY DEF MessagesInOrder
<1>1. PICK m \in Nat : Layout(m)
  BY LayoutFacts
<1>2. m \in 0..Len(wire)
  BY <1>1 DEF Layout
<1>3. \A i \in 1..m : wire[i] = IF ctx.text_response THEN Block(i) ELSE Half(i)
  <2>1. CASE TrailersOnly
    <3>1. m = 0
      BY <1>1, <2>1 DEF Layout
    <3>2. QED
      BY <3>1
  <2>2. CASE ~TrailersOnly
    <3>1. Framed <=> ctx.text_response
      BY <2>2 DEF Framed, Passes
    <3>2. QED
      BY <1>1, <3>1 DEF Layout
  <2>3. QED
    BY <2>1, <2>2
<1>4. ASSUME NEW i \in (m + 1)..Len(wire)
      PROVE  wire[i].what \in {"trailer", "end"}
  <2>1. phase = "complete"
    BY <1>1, <1>4 DEF Layout
  <2>2. CASE Passes
    <3>1. i = m + 1 /\ wire[i] = End
      BY <1>1, <1>4, <2>1, <2>2 DEF Layout
    <3>2. QED
      BY <3>1 DEF End
  <2>3. CASE ~Passes
    <3>1. i = m + 1 \/ i = m + 2
      BY <1>1, <1>4, <2>1, <2>3 DEF Layout
    <3>2. wire[i] = Trailer \/ wire[i] = End
      BY <1>1, <2>1, <2>3, <3>1 DEF Layout
    <3>3. QED
      BY <3>2 DEF Trailer, End
  <2>4. QED
    BY <2>2, <2>3
<1>5. ASSUME phase \in {"body", "complete"}
      PROVE  m = IF ctx.text_response THEN handed \div 2 ELSE handed
  <2>1. m = Count(handed)
    BY <1>1, <1>5 DEF Layout
  <2>2. CASE TrailersOnly
    <3>1. m = 0
      BY <1>1, <2>2 DEF Layout
    <3>2. handed = 0
      BY <2>2, TrailersOnlyFacts DEF IInv, TypeInv
    <3>3. QED
      BY <3>1, <3>2
  <2>3. CASE ~TrailersOnly
    <3>1. ~Passes /\ (Framed <=> ctx.text_response)
      BY <2>3 DEF Framed, Passes
    <3>2. QED
      BY <2>1, <3>1 DEF Count
  <2>4. QED
    BY <2>2, <2>3
<1>6. QED
  BY <1>2, <1>3, <1>4, <1>5

-----------------------------------------------------------------------------

(* However the body is cut into calls and whatever fails, a response that
   was adapted and ended shows one gRPC status, nothing else shows one, and
   its end is marked once and last (header filter, lines 643-648; body
   filter, 1105-1293). *)
THEOREM OneStatusAlways == Spec => []OneStatus
<1>1. IInv => OneStatus
  BY OneStatusHolds
<1>2. QED
  BY <1>1, SpecIInv, PTL

(* A terminal frame is made of the trailers of an upstream that ended well,
   or of an HTTP status that stands for a failure to reach one. *)
THEOREM StatusIsTheUpstreams == Spec => []NoForgedStatus
<1>1. IInv => NoForgedStatus
  BY NoForgedStatusHolds
<1>2. QED
  BY <1>1, SpecIInv, PTL

(* The requests that are adapted are the gRPC-Web requests that came through
   a location with the module on, however often the rewrite phase ran and
   although the first adoption rewrites the header it goes by.  Responses to
   others, and responses that are neither gRPC nor a mapped error, are passed
   on byte for byte; the page of a mapped error never is. *)
THEOREM ForeignUntouched == Spec => []OnlyOwnResponses
<1>1. IInv /\ AdoptInv => OnlyOwnResponses
  BY OnlyOwnResponsesHolds
<1>2. QED
  BY <1>1, SpecIInv, SpecAdoptInv, PTL

(* Text and binary mode deliver the same messages, in the order in which the
   upstream sent them, and nothing but the terminal frame after them. *)
THEOREM SameMessages == Spec => []MessagesInOrder
<1>1. IInv => MessagesInOrder
  BY MessagesInOrderHolds
<1>2. QED
  BY <1>1, SpecIInv, PTL

(* When the body filter returns NGX_ERROR, the response itself is at fault,
   whatever the calls it was cut into. *)
THEOREM RefusalHasCause == Spec => []RefusedForCause
<1>1. IInv => RefusedForCause
  BY DEF IInv
<1>2. QED
  BY <1>1, SpecIInv, PTL
=============================================================================
