---------------------------- MODULE TextResponse ----------------------------
(***************************************************************************)
(* The grpc-web-text response path of ngx_http_grpc_web_module.c: the body *)
(* filter, which re-frames the native gRPC bytes that the upstream module  *)
(* hands it in arbitrary pieces, encodes each complete frame as a base64   *)
(* block of its own, and appends the trailer frame at the end; the         *)
(* recycling of the encoded buffers through the free and busy chains; and  *)
(* NGINX's write filter, which keeps what the client has not taken yet.    *)
(*                                                                         *)
(* A call of the filter runs to its end inside the worker process: while   *)
(* pc # "idle" only the filter (and the write filter it calls) moves.      *)
(* One action is one turn of a loop of the code, or what stands between    *)
(* two loops.                                                              *)
(***************************************************************************)
EXTENDS GrpcFrame, Capacity

CONSTANTS
  MaxFrameSize,   \* grpc_web_max_frame_size
  MaxBufs,        \* bound: buffers in the chain of one body filter call
  Streams         \* the upstream responses considered

(***************************************************************************)
(* An upstream response.  Frame k occupies the bytes cuts[k] up to         *)
(* cuts[k+1]; the upstream delivers the first eof bytes, which start every *)
(* frame listed and may cut the last one short, then either ends the body  *)
(* ("clean", with trailers of the given size) or fails.                    *)
(***************************************************************************)
StreamOK(s) ==
  /\ s \in [cuts : Seq(Nat), eof : Nat, trailer : Nat, clean : BOOLEAN]
  /\ Len(s.cuts) >= 1
  /\ s.cuts[1] = 0
  /\ \A j, k \in 1..Len(s.cuts) :
       j < k => s.cuts[j] + HeaderSize <= s.cuts[k]
  /\ s.eof <= s.cuts[Len(s.cuts)]
  /\ \A k \in 1..(Len(s.cuts) - 1) : s.cuts[k] < s.eof

ASSUME TextAssumption ==
  /\ MaxFrameSize \in Nat
  /\ MaxBufs \in Nat \ {0}
  /\ \A s \in Streams : StreamOK(s)

VARIABLES
  stream,              \* the upstream response being served
  recv,                \* native bytes the filter has consumed
  upstream_done,       \* the buffer with last_buf has been handed over
  status,              \* "open", or why the HTTP request was terminated
  pc,                  \* where the worker is in the body filter
  in,                  \* the rest of the chain passed to this call
  out,                 \* the encoded chain built by this call
  response_frame,      \* ctx: the frame parser
  response_frame_buf,  \* ctx: the current native frame, NULL while cap = 0
  response_free,       \* ctx: encoded buffers ready for reuse
  response_busy,       \* ctx: encoded buffers passed to the next filter
  trailers_sent,       \* ctx
  mem,                 \* every encoded buffer ever allocated
  unsent,              \* r->out: buffers the write filter has not sent
  wire                 \* history: the blocks that the client received

ctx  == <<response_frame, response_frame_buf, response_free, response_busy,
          trailers_sent>>
peer == <<stream, upstream_done>>
vars == <<stream, recv, upstream_done, status, pc, in, out, ctx, mem,
          unsent, wire>>

-----------------------------------------------------------------------------

Messages(s) == Len(s.cuts) - 1
FrameSize(s, k) == s.cuts[k + 1] - s.cuts[k]
LastCut(s) == s.cuts[Len(s.cuts)]

(* The length that the header at position p carries; bytes that do not
   start a frame, misread as a header, say 0, which passes every check. *)
LengthField(s) ==
  [p \in Nat |-> IF \E k \in 1..Messages(s) : s.cuts[k] = p
                 THEN FrameSize(s, CHOOSE k \in 1..Messages(s) : s.cuts[k] = p)
                        - HeaderSize
                 ELSE 0]

(* The trailer frame's bytes are numbered from the end of the stream. *)
TrailerFrame(s) == Bytes(LastCut(s), HeaderSize + s.trailer)

TrailersFit(s) == s.trailer # 0 /\ s.trailer <= MaxFrameSize

(* The k-th block the client should see. *)
Block(s, k) ==
  IF k <= Messages(s)
  THEN [data |-> Bytes(s.cuts[k], FrameSize(s, k)), last_buf |-> FALSE]
  ELSE [data |-> TrailerFrame(s), last_buf |-> TRUE]

(* What base64 makes of n bytes: one padded quartet for every three. *)
EncodedLength(n) == 4 * ((n + 2) \div 3)

Buffers == [data : Seq(Nat), last_buf : BOOLEAN, cap : Nat]
SentAlways(b) == TRUE          \* a mistake: what was passed on is sent
Sent(b) == b.data = << >>      \* ngx_buf_size(b) = 0

(* A native buffer ends before position "end". *)
NativeBufs == [end : Nat, last_buf : BOOLEAN]

TypeOK ==
  /\ stream \in Streams
  /\ recv \in 0..stream.eof
  /\ upstream_done \in BOOLEAN
  /\ status \in {"open", "rejected", "no_memory", "upstream_failed",
                 "closed", "cancelled"}
  /\ pc \in {"idle", "encode", "write", "recycle"}
  /\ in \in Seq(NativeBufs)
  /\ response_frame \in Parsers
  /\ response_frame_buf \in [data : Seq(Nat), cap : Nat]
  /\ trailers_sent \in BOOLEAN
  /\ mem \in Seq(Buffers)
  /\ out \in Seq(1..Len(mem))
  /\ response_free \in Seq(1..Len(mem))
  /\ response_busy \in Seq(1..Len(mem))
  /\ unsent \in Seq(1..Len(mem))
  /\ wire \in Seq([data : Seq(Nat), last_buf : BOOLEAN])

Init ==
  /\ stream \in Streams
  /\ recv = 0
  /\ upstream_done = FALSE
  /\ status = "open"
  /\ pc = "idle"
  /\ in = << >>
  /\ out = << >>
  /\ response_frame = FreshParser
  /\ response_frame_buf = [data |-> << >>, cap |-> 0]
  /\ response_free = << >>
  /\ response_busy = << >>
  /\ trailers_sent = FALSE
  /\ mem = << >>
  /\ unsent = << >>
  /\ wire = << >>

-----------------------------------------------------------------------------
(* The upstream module calls the body filter.                              *)

(* The chains it may pass: bytes not handed over yet, cut anywhere, and
   last_buf on the final buffer once a clean upstream has no more. *)
Chains ==
  {c \in UNION {[1..m -> [end : recv..stream.eof, last_buf : BOOLEAN]] :
                  m \in 1..MaxBufs} :
     /\ \A i, j \in 1..Len(c) :
          i < j => c[i].end <= c[j].end /\ ~c[i].last_buf
     /\ \/ c[Len(c)].end > recv
        \/ c[Len(c)].last_buf
     /\ c[Len(c)].last_buf => stream.clean /\ c[Len(c)].end = stream.eof}

BodyFilter(c) ==
  /\ pc = "idle"
  /\ status = "open"
  /\ ~upstream_done
  /\ ~trailers_sent
  /\ in' = c
  /\ out' = << >>
  /\ upstream_done' = c[Len(c)].last_buf
  /\ pc' = "encode"
  /\ UNCHANGED <<stream, recv, status, ctx, mem, unsent, wire>>

(* The upstream breaks after its last byte.  There is no last_buf, only a
   flush that encodes nothing; what r->out holds is still sent. *)
UpstreamFails ==
  /\ pc = "idle"
  /\ status = "open"
  /\ ~stream.clean
  /\ recv = stream.eof
  /\ status' = "upstream_failed"
  /\ UNCHANGED <<stream, recv, upstream_done, pc, in, out, ctx, mem, unsent,
                 wire>>

-----------------------------------------------------------------------------
(* encode_text_response: one turn of the loop over the head of the chain.  *)

SrcLen == Head(in).end - recv
Parsed == AfterConsume(response_frame, recv, SrcLen, LengthField(stream))
Taken  == Consumes(response_frame, SrcLen)

InHeader  == pc = "encode" /\ in # << >> /\ SrcLen # 0
               /\ ~response_frame.header_ready
InPayload == pc = "encode" /\ in # << >> /\ SrcLen # 0
               /\ response_frame.header_ready /\ Taken # 0
               /\ response_frame_buf.cap # 0

(* The free chain after its head has been taken, and the chain of this call
   after buffer "id" has been linked to it, each with a mistake. *)
FreeKept == response_free
FreeRest == IF response_free = << >> THEN << >> ELSE Tail(response_free)

LinkedInFront(id) == <<id>> \o out
Linked(id) == Append(out, id)

(* encode_text_block: a buffer from the free chain, or a new one, grown to
   the encoded size, takes the block and joins the chain of this call. *)
EncodeBlock(data, last_buf) ==
  LET fresh == response_free = << >>
      id    == IF fresh THEN Len(mem) + 1 ELSE Head(response_free)
      block == [data |-> data, last_buf |-> last_buf,
                cap |-> Grown(IF fresh THEN 0 ELSE mem[id].cap,
                              EncodedLength(Len(data)))]
  IN  /\ mem' = IF fresh THEN Append(mem, block)
                ELSE [mem EXCEPT ![id] = block]
      /\ response_free' = FreeRest
      /\ out' = Linked(id)

(* NGX_ERROR: what this call encoded is dropped and NGINX terminates the
   request. *)
Terminate(why) ==
  /\ status' = why
  /\ pc' = "idle"
  /\ out' = << >>

ReadHeader ==
  /\ InHeader
  /\ ~Parsed.header_ready
  /\ response_frame' = Parsed
  /\ recv' = recv + Taken
  /\ UNCHANGED <<stream, upstream_done, status, pc, in, out,
                 response_frame_buf, response_free, response_busy,
                 trailers_sent, mem, unsent, wire>>

(* The announced length is checked before any storage depends on it. *)
RejectFrame ==
  /\ InHeader
  /\ Parsed.header_ready
  /\ Parsed.length > MaxFrameSize
  /\ response_frame' = Parsed
  /\ recv' = recv + Taken
  /\ Terminate("rejected")
  /\ UNCHANGED <<stream, upstream_done, in, response_frame_buf,
                 response_free, response_busy, trailers_sent, mem, unsent,
                 wire>>

(* A mistake: the header is not counted. *)
PreparedPayload ==
  [data |-> Parsed.header,
   cap  |-> Grown(response_frame_buf.cap, Parsed.length)]

(* prepare_response_frame_buf, then the copy of the header. *)
PreparedFrame ==
  [data |-> Parsed.header,
   cap  |-> Grown(response_frame_buf.cap, HeaderSize + Parsed.length)]

(* A mistake: storage is taken before the length is checked. *)
OpenAnyFrame ==
  /\ InHeader
  /\ Parsed.header_ready
  /\ ~IsComplete(Parsed)
  /\ response_frame' = Parsed
  /\ recv' = recv + Taken
  /\ response_frame_buf' = PreparedFrame
  /\ UNCHANGED <<stream, upstream_done, status, pc, in, out, response_free,
                 response_busy, trailers_sent, mem, unsent, wire>>

OpenFrame ==
  /\ InHeader
  /\ Parsed.header_ready
  /\ Parsed.length <= MaxFrameSize
  /\ ~IsComplete(Parsed)
  /\ response_frame' = Parsed
  /\ recv' = recv + Taken
  /\ response_frame_buf' = PreparedFrame
  /\ UNCHANGED <<stream, upstream_done, status, pc, in, out, response_free,
                 response_busy, trailers_sent, mem, unsent, wire>>

EmptyFrame ==
  /\ InHeader
  /\ Parsed.header_ready
  /\ Parsed.length <= MaxFrameSize
  /\ IsComplete(Parsed)
  /\ EncodeBlock(PreparedFrame.data, FALSE)
  /\ response_frame_buf' = [PreparedFrame EXCEPT !.data = << >>]
  /\ response_frame' = FreshParser
  /\ recv' = recv + Taken
  /\ UNCHANGED <<stream, upstream_done, status, pc, in, response_busy,
                 trailers_sent, unsent, wire>>

(* The frame collected so far with the payload bytes of this turn. *)
Collected == response_frame_buf.data \o Bytes(recv, Taken)

ReadPayload ==
  /\ InPayload
  /\ ~IsComplete(Parsed)
  /\ response_frame' = Parsed
  /\ recv' = recv + Taken
  /\ response_frame_buf' = [response_frame_buf EXCEPT !.data = Collected]
  /\ UNCHANGED <<stream, upstream_done, status, pc, in, out, response_free,
                 response_busy, trailers_sent, mem, unsent, wire>>

CloseFrame ==
  /\ InPayload
  /\ IsComplete(Parsed)
  /\ EncodeBlock(Collected, FALSE)
  /\ response_frame_buf' = [response_frame_buf EXCEPT !.data = << >>]
  /\ response_frame' = FreshParser
  /\ recv' = recv + Taken
  /\ UNCHANGED <<stream, upstream_done, status, pc, in, response_busy,
                 trailers_sent, unsent, wire>>

NextBuffer ==
  /\ pc = "encode"
  /\ in # << >>
  /\ SrcLen = 0
  /\ ~Head(in).last_buf
  /\ in' = Tail(in)
  /\ UNCHANGED <<stream, recv, upstream_done, status, pc, out, ctx, mem,
                 unsent, wire>>

(* A mistake: a frame cut short is waited for. *)
AtLastBufOfFrame == pc = "encode" /\ in # << >> /\ SrcLen = 0
                      /\ Head(in).last_buf /\ ~response_frame.header_ready
AtLastBuf == pc = "encode" /\ in # << >> /\ SrcLen = 0 /\ Head(in).last_buf

(* Mistakes: asking only for the payload, or for the storage. *)
MidPayload == response_frame.header_ready
MidStorage == response_frame_buf.cap # 0
MidFrame  == response_frame.header # << >> \/ response_frame.header_ready

(* A frame cut short, or build_trailer_frame refusing the trailer block. *)
RejectEnd ==
  /\ AtLastBuf
  /\ MidFrame \/ ~TrailersFit(stream)
  /\ Terminate("rejected")
  /\ UNCHANGED <<stream, recv, upstream_done, in, ctx, mem, unsent, wire>>

EncodeTrailers ==
  /\ AtLastBuf
  /\ ~MidFrame
  /\ TrailersFit(stream)
  /\ EncodeBlock(TrailerFrame(stream), TRUE)
  /\ trailers_sent' = TRUE
  /\ in' = Tail(in)
  /\ UNCHANGED <<stream, recv, upstream_done, status, pc, response_frame,
                 response_frame_buf, response_busy, unsent, wire>>

(* ngx_palloc may fail where a turn of the loop asks for memory. *)
AllocationFails ==
  /\ \/ InHeader /\ Parsed.header_ready /\ Parsed.length <= MaxFrameSize
     \/ InPayload /\ IsComplete(Parsed)
     \/ AtLastBuf /\ ~MidFrame /\ TrailersFit(stream)
  /\ Terminate("no_memory")
  /\ UNCHANGED <<stream, recv, upstream_done, in, ctx, mem, unsent, wire>>

-----------------------------------------------------------------------------
(* next_body_filter and ngx_chain_update_chains.                           *)

(* The chain is consumed.  With nothing encoded, only the recycling runs. *)
EndOfChain ==
  /\ pc = "encode"
  /\ in = << >>
  /\ unsent' = unsent \o out
  /\ pc' = IF out = << >> THEN "recycle" ELSE "write"
  /\ UNCHANGED <<stream, recv, upstream_done, status, in, out, ctx, mem,
                 wire>>

Sending == status \in {"open", "upstream_failed"}

(* The client takes a block, during the filter's call (pc = "write") or on
   a later write event, when the filter is called with no chain and passes
   the call on without recycling (pc = "idle"). *)
SendBlock ==
  /\ pc \in {"idle", "write"}
  /\ Sending
  /\ unsent # << >>
  /\ LET b == mem[Head(unsent)]
     IN  /\ wire' = Append(wire, [data |-> b.data, last_buf |-> b.last_buf])
         /\ mem' = [mem EXCEPT ![Head(unsent)].data = << >>]
  /\ unsent' = Tail(unsent)
  /\ UNCHANGED <<stream, recv, upstream_done, status, pc, in, out, ctx>>

(* The write filter returns, having sent everything or not (NGX_AGAIN). *)
WriteReturns ==
  /\ pc = "write"
  /\ response_busy' = response_busy \o out
  /\ out' = << >>
  /\ pc' = "recycle"
  /\ UNCHANGED <<stream, recv, upstream_done, status, in, response_frame,
                 response_frame_buf, response_free, trailers_sent, mem,
                 unsent, wire>>

(* A mistake: stopping after one buffer. *)
ReturnEarly ==
  /\ pc = "recycle"
  /\ pc' = "idle"
  /\ UNCHANGED <<stream, recv, upstream_done, status, in, out, ctx, mem,
                 unsent, wire>>

(* update_chains: sent buffers leave the head of the busy chain and go on
   top of the free chain; the first unsent one ends the loop. *)
Recycle ==
  /\ pc = "recycle"
  /\ response_busy # << >>
  /\ Sent(mem[Head(response_busy)])
  /\ response_free' = <<Head(response_busy)>> \o response_free
  /\ response_busy' = Tail(response_busy)
  /\ UNCHANGED <<stream, recv, upstream_done, status, pc, in, out,
                 response_frame, response_frame_buf, trailers_sent, mem,
                 unsent, wire>>

Return ==
  /\ pc = "recycle"
  /\ response_busy # << >> => ~Sent(mem[Head(response_busy)])
  /\ pc' = "idle"
  /\ UNCHANGED <<stream, recv, upstream_done, status, in, out, ctx, mem,
                 unsent, wire>>

-----------------------------------------------------------------------------

Finished == upstream_done /\ pc = "idle" /\ unsent = << >>

(* After a failure of the upstream the connection closes once r->out is
   empty, without the end of the HTTP body. *)
Close ==
  /\ pc = "idle"
  /\ status = "upstream_failed"
  /\ unsent = << >>
  /\ status' = "closed"
  /\ UNCHANGED <<stream, recv, upstream_done, pc, in, out, ctx, mem, unsent,
                 wire>>

(* The client goes away: NGINX terminates the request, unless the response
   is out already and the request is over. *)
Cancel ==
  /\ pc = "idle"
  /\ Sending
  /\ ~Finished
  /\ status' = "cancelled"
  /\ UNCHANGED <<stream, recv, upstream_done, pc, in, out, ctx, mem, unsent,
                 wire>>

(* The response is over: nothing is left to do. *)
Over ==
  /\ Finished \/ ~Sending
  /\ UNCHANGED vars

Encode ==
  \/ ReadHeader \/ RejectFrame \/ OpenFrame \/ EmptyFrame
  \/ ReadPayload \/ CloseFrame \/ NextBuffer
  \/ RejectEnd \/ EncodeTrailers \/ AllocationFails

Pass == EndOfChain \/ WriteReturns \/ Recycle \/ Return

Next ==
  \/ \E c \in Chains : BodyFilter(c)
  \/ UpstreamFails
  \/ Encode \/ Pass \/ SendBlock
  \/ Close \/ Cancel \/ Over

(***************************************************************************)
(* The worker finishes a call it has begun.  An upstream that stays silent *)
(* ends in grpc_read_timeout and a client that stops reading in            *)
(* send_timeout (UpstreamFails and Cancel), so the liveness properties are *)
(* about a live upstream and a reading client.                             *)
(***************************************************************************)
Fairness ==
  /\ WF_vars(Encode \/ Pass)
  /\ WF_vars(UpstreamFails \/ \E c \in Chains : BodyFilter(c))
  /\ WF_vars(SendBlock \/ Close)

Spec == Init /\ [][Next]_vars /\ Fairness

-----------------------------------------------------------------------------

Legal(s, k)  == FrameSize(s, k) - HeaderSize <= MaxFrameSize

(* A response that the upstream finished and that obeys the limits. *)
Complete(s) ==
  /\ s.clean
  /\ s.eof = LastCut(s)
  /\ TrailersFit(s)
  /\ \A k \in 1..Messages(s) : Legal(s, k)

(* PROTOCOL_CONTRACT.md, 26-30 and 81-85: however NGINX cuts the stream and
   however its buffers are recycled, the client receives the frames one by
   one, whole, unaltered and in order, then the trailer frame, once. *)
DeliveredInOrder ==
  /\ Len(wire) <= Messages(stream) + 1
  /\ \A i \in 1..Len(wire) : wire[i] = Block(stream, i)

(* IMPLEMENTATION_PLAN.md, 132: a broken, truncated or refused response
   never shows the client a terminal frame. *)
NoFalseTerminal ==
  (\E i \in 1..Len(wire) : wire[i].last_buf) => Complete(stream)

(* The filter refuses a response only for what the upstream sent, never for
   where the chunk boundaries fell. *)
RejectsOnlyBadStreams ==
  status = "rejected" =>
    \/ \E k \in 1..Messages(stream) : ~Legal(stream, k)
    \/ stream.clean /\ (stream.eof # LastCut(stream) \/ ~TrailersFit(stream))

(* The free, busy and new chains (lines 909, 1097 and 1193-1206) together
   hold every buffer of the request exactly once: none is lost, which would
   be a leak per frame, and none is on two chains, which would let a block
   be overwritten before the client has it. *)
BuffersOwnedOnce ==
  status = "open" =>
    LET chains == response_free \o response_busy \o out
    IN  /\ Len(chains) = Len(mem)
        /\ \A i, j \in 1..Len(chains) : i # j => chains[i] # chains[j]

(* Both copies stay inside the storage that was reserved for them: the
   native frame (lines 1012 and 1044), to the byte that completes it, and its
   base64 form (line 933). *)
NoOverrun ==
  /\ Len(response_frame_buf.data) <= response_frame_buf.cap
  /\ InPayload => Len(Collected) <= response_frame_buf.cap
  /\ \A i \in 1..Len(mem) : EncodedLength(Len(mem[i].data)) <= mem[i].cap

(* PROTOCOL_CONTRACT.md, 101-105: no allocation follows the length field of
   a frame beyond the configured maximum. *)
AllocationBounded ==
  LET Bound(n) == IF n <= InitialCapacity THEN InitialCapacity ELSE 2 * n
      largest  == HeaderSize + MaxFrameSize
  IN  /\ response_frame_buf.cap <= Bound(largest)
      /\ \A i \in 1..Len(mem) : mem[i].cap <= Bound(EncodedLength(largest))

(* M5: when the filter returns, the busy chain holds the blocks the client
   has not taken and no other. *)
HoldsOnlyUnsent ==
  [][pc = "recycle" /\ pc' = "idle" => response_busy' = unsent']_vars

(* A complete response reaches a reading client to its last block, unless
   the client leaves or memory runs out. *)
Completes ==
  Complete(stream) ~> \/ status \in {"cancelled", "no_memory"}
                      \/ Len(wire) = Messages(stream) + 1

(* Every other response ends too: nothing hangs. *)
Ends == <>(~Sending \/ Finished)

(* The abstract promise. *)
Plan(s) == [messages |-> [k \in 1..Messages(s) |-> Block(s, k)],
            terminal |-> Block(s, Messages(s) + 1),
            complete |-> Complete(s)]

Client == INSTANCE WebStream WITH
  Plans   <- {Plan(s) : s \in Streams},
  plan    <- Plan(stream),
  outcome <- IF ~Sending THEN "broken"
             ELSE IF Len(wire) = Messages(stream) + 1 THEN "finished"
             ELSE "open"

ImplementsWebStream == Client!Spec

=============================================================================
