---------------------------- MODULE RequestDecode ----------------------------
(***************************************************************************)
(* The grpc-web-text request path: the request body filter, which decodes  *)
(* base64 as NGINX reads it from the client, in whatever pieces, limits    *)
(* the decoded size, and passes data and end-of-body marks on towards the  *)
(* upstream.  One action is one turn of a loop: over the buffers of a call *)
(* in decode_text_request, over the characters of a buffer in              *)
(* grpc_web_b64_decode_update.                                             *)
(***************************************************************************)
EXTENDS Base64, SequencesExt

CONSTANTS
  HeaderSize,     \* GRPC_WEB_FRAME_HEADER_SIZE
  MaxFrameSize,   \* grpc_web_max_frame_size
  MaxSize,        \* NGX_MAX_SIZE_T_VALUE
  MaxOffset,      \* NGX_MAX_OFF_T_VALUE
  MaxBufs,        \* bound: buffers in one call
  Texts           \* the request bodies considered

ASSUME RequestAssumption ==
  /\ HeaderSize \in Nat
  /\ MaxFrameSize \in 0..MaxSize
  /\ MaxSize \in Nat /\ HeaderSize <= MaxSize
  /\ MaxOffset \in Nat
  /\ MaxBufs \in Nat \ {0}
  /\ Texts \subseteq Seq(Chars)

VARIABLES
  text,                  \* the body that the client sends
  no_buffering,          \* r->request_body_no_buffering: flush every buffer
  read,                  \* how much of it the decoder has taken
  status,                \* "open", or why the request was refused
  pc,                    \* where the worker is in the filter
  in,                    \* the rest of the chain passed to this call
  out,                   \* the chain decoded by this call
  pending,               \* decoder: characters short of a quartet
  finished,              \* decoder: the padding, or the end, has been seen
  dst_cap,               \* capacity of the output buffer of this turn
  written,               \* what this turn has decoded
  decoded_request_size,  \* ctx
  request_finished,      \* ctx
  content_length_n,      \* r->headers_in, -1 while unknown
  forwarded              \* history: the buffers passed to the next filter

decoder == <<pending, finished>>
ctx     == <<decoded_request_size, request_finished, content_length_n>>
client  == <<text, no_buffering>>
vars    == <<client, read, status, pc, in, out, decoder, dst_cap, written, ctx,
             forwarded>>

(* A buffer of the client's body ends at character "end"; flush stands for
   the flags flush and sync, which are treated alike. *)
Bufs    == [end : Nat, last_buf : BOOLEAN]
OutBufs == [data : Seq(Octets), flush : BOOLEAN, last_buf : BOOLEAN]

max_body == IF MaxFrameSize > MaxSize - HeaderSize
            THEN MaxSize ELSE MaxFrameSize + HeaderSize

TypeOK ==
  /\ text \in Texts
  /\ no_buffering \in BOOLEAN
  /\ read \in 0..Len(text)
  /\ status \in {"open", "malformed", "duplicate", "too_large", "sizing",
                 "no_memory"}
  /\ pc \in {"idle", "next", "decode"}
  /\ in \in Seq(Bufs)
  /\ out \in Seq(OutBufs)
  /\ pending \in Seq(Chars)
  /\ finished \in BOOLEAN
  /\ dst_cap \in Nat
  /\ written \in Seq(Octets)
  /\ decoded_request_size \in 0..MaxSize
  /\ request_finished \in BOOLEAN
  /\ content_length_n \in Nat \cup {-1}
  /\ forwarded \in Seq(OutBufs)

Init ==
  /\ text \in Texts
  /\ no_buffering \in BOOLEAN
  /\ read = 0
  /\ status = "open"
  /\ pc = "idle"
  /\ in = << >>
  /\ out = << >>
  /\ pending = << >>
  /\ finished = FALSE
  /\ dst_cap = 0
  /\ written = << >>
  /\ decoded_request_size = 0
  /\ request_finished = FALSE
  /\ content_length_n = -1
  /\ forwarded = << >>

-----------------------------------------------------------------------------

(* The pieces NGINX may cut the body into: every buffer brings characters,
   or is the last one and may then be empty.  A call after the last buffer
   would break NGINX's own contract; the filter refuses it all the same. *)
Chains ==
  IF request_finished
  THEN {<<[end |-> read, last_buf |-> again]>> : again \in BOOLEAN}
  ELSE {c \in UNION {[1..m -> [end : read..Len(text), last_buf : BOOLEAN]] :
                        m \in 1..MaxBufs} :
          \A i \in 1..Len(c) :
            /\ \A j \in 1..(i - 1) : c[j].end <= c[i].end /\ ~c[j].last_buf
            /\ c[i].last_buf => c[i].end = Len(text)
            /\ \/ c[i].last_buf
               \/ c[i].end > (IF i = 1 THEN read ELSE c[i - 1].end)}

RequestBodyFilter(c) ==
  /\ pc = "idle"
  /\ status = "open"
  /\ in' = c
  /\ out' = << >>
  /\ pc' = "next"
  /\ UNCHANGED <<client, read, status, decoder, dst_cap, written, ctx,
                 forwarded>>

(* An error return ends the request with 400 ("malformed", "duplicate"), 413
   ("too_large") or 500; what this call decoded is not passed on, and ctx is
   not looked at again. *)
Refuse(why) ==
  /\ status' = why
  /\ pc' = "idle"
  /\ UNCHANGED <<client, read, in, out, decoder, dst_cap, written, ctx,
                 forwarded>>

SrcLen == Head(in).end - read

(* A mistake: a second body is let in. *)
NeverDuplicate == FALSE
Duplicate == request_finished

RefuseDuplicate ==
  /\ pc = "next"
  /\ in # << >>
  /\ Duplicate
  /\ Refuse("duplicate")

(* The room for the longest output that src_len can need; a mistake: what may
   be pending is forgotten. *)
TightRoom == SrcLen + 1
Room == SrcLen + 2

TakeBuffer ==
  /\ pc = "next"
  /\ in # << >>
  /\ ~Duplicate
  /\ ~(finished /\ SrcLen # 0)
  /\ dst_cap' = Room
  /\ written' = << >>
  /\ pc' = "decode"
  /\ UNCHANGED <<client, read, status, in, out, decoder, ctx, forwarded>>

RefuseAfterPadding ==
  /\ pc = "next"
  /\ in # << >>
  /\ ~Duplicate
  /\ finished /\ SrcLen # 0
  /\ Refuse("malformed")

-----------------------------------------------------------------------------
(* grpc_web_b64_decode_update: one character.                              *)

Decoding == pc = "decode" /\ SrcLen # 0

(* What the next character adds to; a mistake: every buffer starts anew. *)
QuartetOfBuffer ==
  Append(IF dst_cap = Room THEN << >> ELSE pending, text[read + 1])
Quartet == Append(pending, text[read + 1])

ReadChar ==
  /\ Decoding
  /\ Len(Quartet) < 4
  /\ pending' = Quartet
  /\ read' = read + 1
  /\ UNCHANGED <<client, status, pc, in, out, finished, dst_cap, written, ctx,
                 forwarded>>

(* A mistake: padding refused also where the text ends. *)
MalformedIfPadded == ~QuartetOK(Quartet) \/ Padded(Quartet)

Malformed == \/ ~QuartetOK(Quartet)
             \/ Padded(Quartet) /\ SrcLen # 1
TooSmall  == dst_cap - Len(written) < Len(DecodeQuartet(Quartet))

ReadQuartet ==
  /\ Decoding
  /\ Len(Quartet) = 4
  /\ ~Malformed
  /\ ~TooSmall
  /\ written' = written \o DecodeQuartet(Quartet)
  /\ finished' = Padded(Quartet)
  /\ pending' = << >>
  /\ read' = read + 1
  /\ UNCHANGED <<client, status, pc, in, out, dst_cap, ctx, forwarded>>

(* In the order of the code: the characters, the room, what follows. *)
RefuseQuartet ==
  /\ Decoding
  /\ Len(Quartet) = 4
  /\ Malformed \/ TooSmall
  /\ Refuse(IF QuartetOK(Quartet) /\ TooSmall THEN "sizing" ELSE "malformed")

-----------------------------------------------------------------------------
(* The buffer is decoded: limits, then what is passed on for it.           *)

Decoded == pc = "decode" /\ SrcLen = 0

RefusePartial ==
  /\ Decoded
  /\ Head(in).last_buf
  /\ pending # << >>
  /\ Refuse("malformed")

(* The second limit is checked at the end of the body only. *)
TooLarge ==
  \/ decoded_request_size + Len(written) > max_body
  \/ Head(in).last_buf /\ decoded_request_size + Len(written) > MaxOffset

RefuseSize ==
  /\ Decoded
  /\ ~(Head(in).last_buf /\ pending # << >>)
  /\ TooLarge
  /\ Refuse("too_large")

EndsBody == Head(in).last_buf

(* The loop's step; a mistake: a buffer that left nothing is not left. *)
RestIfForwarded ==
  IF written # << >> \/ Head(in).last_buf \/ no_buffering THEN Tail(in) ELSE in
Rest == Tail(in)

(* Data, or the marks of an empty buffer without data: an empty buffer that
   carries no mark is dropped. *)
PassOn ==
  /\ Decoded
  /\ ~(Head(in).last_buf /\ pending # << >>)
  /\ ~TooLarge
  /\ decoded_request_size' = decoded_request_size + Len(written)
  /\ out' = IF written # << >> \/ Head(in).last_buf \/ no_buffering
            THEN Append(out, [data     |-> written,
                              flush    |-> no_buffering,
                              last_buf |-> Head(in).last_buf])
            ELSE out
  /\ finished' = (finished \/ Head(in).last_buf)
  /\ request_finished' = (request_finished \/ EndsBody)
  /\ content_length_n' = IF EndsBody THEN decoded_request_size'
                         ELSE content_length_n
  /\ in' = Rest
  /\ pc' = "next"
  /\ dst_cap' = 0
  /\ written' = << >>
  /\ UNCHANGED <<client, read, status, pending, forwarded>>

AllocationFails ==
  /\ \/ pc = "next" /\ in # << >> /\ ~request_finished
     \/ Decoded
  /\ Refuse("no_memory")

EndOfChain ==
  /\ pc = "next"
  /\ in = << >>
  /\ forwarded' = forwarded \o out
  /\ out' = << >>
  /\ pc' = "idle"
  /\ UNCHANGED <<client, read, status, in, decoder, dst_cap, written, ctx>>

(* The body has been read, or the request has been ended. *)
Over ==
  /\ pc = "idle"
  /\ request_finished \/ status # "open"
  /\ UNCHANGED vars

Filter ==
  \/ RefuseDuplicate \/ TakeBuffer \/ RefuseAfterPadding
  \/ ReadChar \/ ReadQuartet \/ RefuseQuartet
  \/ RefusePartial \/ RefuseSize \/ PassOn
  \/ AllocationFails \/ EndOfChain

Next ==
  \/ \E c \in Chains : RequestBodyFilter(c)
  \/ Filter
  \/ Over

(* The worker finishes a call.  A client that stops sending is ended by
   client_body_timeout, so progress is claimed for one that goes on. *)
Fairness ==
  /\ WF_vars(Filter)
  /\ WF_vars(~request_finished /\ \E c \in Chains : RequestBodyFilter(c))

Spec == Init /\ [][Next]_vars /\ Fairness

-----------------------------------------------------------------------------

Forwarded == FlattenSeq([i \in 1..Len(forwarded) |-> forwarded[i].data])
Returned  == pc = "idle" /\ status \in {"open", "duplicate"}

(* The part of the body that is base64: its longest valid prefix. *)
GoodPart ==
  LET prefixes == {SubSeq(text, 1, n) : n \in 0..Len(text)}
  IN  CHOOSE p \in prefixes :
        Valid(p) /\ \A o \in prefixes : Valid(o) => Len(o) <= Len(p)

(* PROTOCOL_CONTRACT.md, 24-32: the upstream receives the octets that the
   text stands for, in order and without a gap, wherever the body was cut;
   all of them once the body has been accepted, and then it was valid. *)
ForwardsMeaning ==
  /\ IsPrefix(Forwarded, Meaning(GoodPart))
  /\ Returned /\ request_finished => Valid(text) /\ Forwarded = Meaning(text)

(* A body is refused for what it says, never for how it was cut. *)
RefusedFromText ==
  /\ status = "malformed" => ~Valid(text)
  /\ status = "too_large" =>
       \/ Len(Meaning(GoodPart)) > max_body
       \/ Len(Meaning(GoodPart)) > MaxOffset

(* The limit of lines 438-441 and 497-502 is one on the whole body, over all
   its buffers and calls: no more than that goes upstream. *)
VerdictFromText ==
  /\ RefusedFromText
  /\ Len(Forwarded) <= max_body

(* Lines 443-566: the end of the body is passed on exactly once, on the last
   buffer, also when its own buffer was empty; the length given to the
   upstream module is the length passed on. *)
BodyEndsOnce ==
  /\ \A i \in 1..Len(forwarded) :
       forwarded[i].last_buf => i = Len(forwarded) /\ request_finished
  /\ Returned /\ request_finished =>
       /\ forwarded # << >> /\ Last(forwarded).last_buf
       /\ content_length_n = Len(Forwarded)

(* Lines 471 and 491-496: src_len + 2 octets always hold what one update can
   write, with up to three characters left over from the one before. *)
NeverMissized == status # "sizing"

(* PROTOCOL_CONTRACT.md, 31: a body ends predictably, accepted or refused. *)
Settles == <>(pc = "idle" /\ (request_finished \/ status # "open"))

=============================================================================
