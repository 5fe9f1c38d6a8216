---------------------------- MODULE ResponseFilter ----------------------------
(***************************************************************************)
(* One exchange as the module's hooks see it: the rewrite handler that     *)
(* adopts a gRPC-Web request, the header filter that decides what becomes  *)
(* of the response, and the body filter in all its branches: untouched,    *)
(* trailers-only, local error, binary, text.                               *)
(*                                                                         *)
(* One action is one call of a hook.  The native body is a row of half     *)
(* frames: half 2k-1 holds the header of message k, half 2k completes it.  *)
(* TextResponse has the text branch byte by byte, with the client that     *)
(* reads slowly; here what a call passes on is received.                   *)
(***************************************************************************)
EXTENDS Integers, Sequences

CONSTANTS
  Limits,         \* the values of grpc_web_max_frame_size considered
  StatusSize,     \* length of the status block made for a local error
  MaxRewrites,    \* bound: runs of the rewrite phase (NGINX allows 11)
  Requests,       \* the requests considered
  Responses       \* the responses considered

(***************************************************************************)
(* A response, as NGINX hands it over: the status line; whether the media  *)
(* type is application/grpc; whether content_length_n is 0; whether        *)
(* grpc-status is among the headers; how many halves the body has and      *)
(* which message (0 for none) is over the limit; the size of the trailer   *)
(* block; and whether the upstream ends properly.  The body of a response  *)
(* that is not gRPC is a page of so many halves.                           *)
(***************************************************************************)
ASSUME ResponseAssumption ==
  /\ Limits \subseteq Nat /\ StatusSize \in Nat /\ MaxRewrites \in Nat \ {0}
  /\ Requests \subseteq [media : {"web", "web-text", "other"}, accept_text : BOOLEAN]
  /\ Responses \subseteq [status : Nat, grpc : BOOLEAN, empty : BOOLEAN,
                          status_header : BOOLEAN, halves : Nat, big : Nat,
                          trailer : Nat, clean : BOOLEAN]

(* gRPC's rule for an upstream, which the header filter's comment relies on
   (lines 633-642): a status among the headers is that of a response without
   body or trailers. *)
ASSUME UpstreamAssumption ==
  \A r \in Responses :
    /\ r.empty => r.halves = 0
    /\ r.status_header => r.status = 200 /\ r.grpc /\ r.empty

VARIABLES
  request,      \* what the client sent
  response,     \* what NGINX will hand to the filters
  limit,        \* the location's grpc_web_max_frame_size
  phase,        \* "rewrite", "header", "body"; "complete"; "refused" when a
                \* filter failed; "cut" when somebody else gave up
  rewrites,     \* runs of the rewrite phase so far
  offered,      \* history: one of them was in a location with the module on
  media,        \* r->headers_in.content_type, by what it is taken for
  ctx,          \* the module's context
  shown,        \* the headers as the client sees them
  handed,       \* halves of the body handed to the body filter
  wire          \* what the client has received, in order

env    == <<request, response, limit>>
passes == <<rewrites, offered>>
vars   == <<env, phase, passes, media, ctx, shown, handed, wire>>

NoCtx == [active |-> FALSE, text_response |-> FALSE, transform |-> FALSE,
          trailers_sent |-> FALSE, local_error |-> 0]

Half(k)  == [what |-> "half", of |-> k]      \* native bytes, as they came
Block(k) == [what |-> "block", of |-> k]     \* message k, re-framed
Trailer  == [what |-> "trailer", of |-> 0]   \* the upstream's trailers
Status(s) == [what |-> "status", of |-> s]   \* made up for a local error
End      == [what |-> "end", of |-> 0]       \* last_buf

Init ==
  /\ request \in Requests
  /\ response \in Responses
  /\ limit \in Limits
  /\ phase = "rewrite"
  /\ rewrites = 0 /\ offered = FALSE
  /\ media = request.media
  /\ ctx = NoCtx
  /\ shown = [status |-> 0, web |-> FALSE, status_header |-> FALSE]
  /\ handed = 0
  /\ wire = << >>

-----------------------------------------------------------------------------
(* ngx_http_grpc_web_rewrite_handler: a request is adopted once, whatever   *)
(* locations it passes through ("enabled" is the directive there).          *)

Adopts(enabled) == enabled /\ media \in {"web", "web-text"} /\ ~ctx.active

RewriteHandler(enabled, again) ==
  /\ phase = "rewrite"
  /\ rewrites' = rewrites + 1 /\ offered' = (offered \/ enabled)
  /\ IF Adopts(enabled)
     THEN /\ ctx' = [NoCtx EXCEPT !.active = TRUE,
                                  !.text_response = request.accept_text]
          /\ media' = "grpc"
     ELSE UNCHANGED <<ctx, media>>
  /\ phase' = IF again /\ rewrites + 1 < MaxRewrites THEN "rewrite" ELSE "header"
  /\ UNCHANGED <<env, shown, handed, wire>>

-----------------------------------------------------------------------------
(* ngx_http_grpc_web_header_filter.                                         *)

IsNative == response.status = 200 /\ response.grpc

(* map_local_error: the gRPC status for an HTTP status, 0 for no status. *)
LocalStatus ==
  IF response.status \in {502, 503} THEN 14
  ELSE IF response.status \in {504, 408} THEN 4
  ELSE 0

Untouched == [status |-> response.status, web |-> FALSE,
              status_header |-> response.status_header]

(* A mistake: the absence of a body is enough. *)
NoBody == response.empty
TrailersOnly == response.empty /\ response.status_header

PassHeaders ==
  /\ phase = "header"
  /\ ~ctx.active \/ (~IsNative /\ LocalStatus = 0)
  /\ shown' = Untouched
  /\ phase' = "body"
  /\ UNCHANGED <<env, passes, media, ctx, handed, wire>>

LocalError ==
  /\ phase = "header"
  /\ ctx.active
  /\ ~IsNative
  /\ LocalStatus # 0
  /\ ctx' = [ctx EXCEPT !.transform = TRUE, !.local_error = LocalStatus]
  /\ shown' = [Untouched EXCEPT !.status = 200, !.web = TRUE]
  /\ phase' = "body"
  /\ UNCHANGED <<env, passes, media, handed, wire>>

NativeHeaders ==
  /\ phase = "header"
  /\ ctx.active
  /\ IsNative
  /\ ctx' = [ctx EXCEPT !.transform = TRUE, !.trailers_sent = TrailersOnly]
  /\ shown' = [Untouched EXCEPT !.web = TRUE]
  /\ phase' = "body"
  /\ UNCHANGED <<env, passes, media, handed, wire>>

-----------------------------------------------------------------------------
(* ngx_http_grpc_web_body_filter, called with the next n halves and, when   *)
(* "last", with last_buf: on the last of them, or on a buffer of its own.   *)

(* What goes to the client, and whether the response ends with it. *)
Send(items, last) ==
  /\ wire' = wire \o items
  /\ phase' = IF last THEN "complete" ELSE "body"

(* NGX_ERROR: nothing of this call reaches the client. *)
Break ==
  /\ phase' = "refused"
  /\ UNCHANGED <<ctx, wire>>

Halves(n) == [i \in 1..n |-> Half(handed + i)]
Ending(last) == IF last THEN <<End>> ELSE << >>

PassBody(n, last) ==
  /\ ~ctx.transform \/ ctx.trailers_sent
  /\ Send(Halves(n) \o Ending(last), last)
  /\ UNCHANGED ctx

(* A mistake: only the buffer with the end is emptied. *)
LocalErrorBodyWithPage(n, last) ==
  /\ ctx.transform /\ ~ctx.trailers_sent
  /\ ctx.local_error # 0
  /\ IF last /\ StatusSize > limit
     THEN Break
     ELSE /\ Send(IF last THEN <<Status(ctx.local_error), End>> ELSE Halves(n), last)
          /\ ctx' = [ctx EXCEPT !.trailers_sent = last]

(* The page is swallowed; its end becomes the status. *)
LocalErrorBody(n, last) ==
  /\ ctx.transform /\ ~ctx.trailers_sent
  /\ ctx.local_error # 0
  /\ IF last /\ StatusSize > limit
     THEN Break
     ELSE /\ Send(IF last THEN <<Status(ctx.local_error), End>> ELSE << >>, last)
          /\ ctx' = [ctx EXCEPT !.trailers_sent = last]

(* Two mistakes: an empty block is allowed; the limit itself is not. *)
TrailersNotTooLarge == response.trailer <= limit
TrailersBelowLimit  == response.trailer # 0 /\ response.trailer < limit
TrailersFit == response.trailer # 0 /\ response.trailer <= limit

(* Both modes: the end of the body is moved behind the trailer frame. *)
WithTrailers(items, last) ==
  IF last /\ ~TrailersFit
  THEN Break
  ELSE /\ Send(IF last THEN items \o <<Trailer, End>> ELSE items, last)
       /\ ctx' = [ctx EXCEPT !.trailers_sent = last]

BinaryBody(n, last) ==
  /\ ctx.transform /\ ~ctx.trailers_sent
  /\ ctx.local_error = 0
  /\ ~ctx.text_response
  /\ WithTrailers(Halves(n), last)

(* A mistake: a frame is looked for inside one call. *)
BlocksWithin(n) == [i \in 1..(n \div 2) |-> Block(handed \div 2 + i)]

(* The frames that this call completes. *)
Blocks(n) ==
  LET first == handed \div 2
  IN  [i \in 1..((handed + n) \div 2 - first) |-> Block(first + i)]

Oversized(n) == response.big # 0 /\ 2 * response.big - 1 \in (handed + 1)..(handed + n)
Incomplete(n) == (handed + n) % 2 # 0

TextBody(n, last) ==
  /\ ctx.transform /\ ~ctx.trailers_sent
  /\ ctx.local_error = 0
  /\ ctx.text_response
  /\ IF Oversized(n) \/ (last /\ Incomplete(n))
     THEN Break
     ELSE WithTrailers(Blocks(n), last)

BodyFilter(n, last) ==
  /\ phase = "body"
  /\ n # 0 \/ last
  /\ last => handed + n = response.halves /\ response.clean
  /\ handed' = handed + n
  /\ \/ PassBody(n, last) \/ LocalErrorBody(n, last)
     \/ BinaryBody(n, last) \/ TextBody(n, last)
  /\ UNCHANGED <<env, passes, media, shown>>

(* The upstream breaks: NGINX closes the response without its end. *)
UpstreamFails ==
  /\ phase = "body"
  /\ ~response.clean
  /\ handed = response.halves
  /\ phase' = "cut"
  /\ UNCHANGED <<env, passes, media, ctx, shown, handed, wire>>

(* Memory runs out, or the client leaves. *)
GiveUp ==
  /\ phase \in {"rewrite", "header", "body"}
  /\ phase' = "cut"
  /\ UNCHANGED <<env, passes, media, ctx, shown, handed, wire>>

Over ==
  /\ phase \in {"complete", "refused", "cut"}
  /\ UNCHANGED vars

Next ==
  \/ \E enabled, again \in BOOLEAN : RewriteHandler(enabled, again)
  \/ PassHeaders \/ LocalError \/ NativeHeaders
  \/ \E n \in 0..(response.halves - handed), last \in BOOLEAN :
       BodyFilter(n, last)
  \/ UpstreamFails \/ GiveUp \/ Over

Spec == Init /\ [][Next]_vars

-----------------------------------------------------------------------------

Ended(items) == items # << >> /\ items[Len(items)] = End
Statuses == {i \in 1..Len(wire) : wire[i].what \in {"trailer", "status"}}

(* PROTOCOL_CONTRACT.md, 67-89: a response that was adapted and ended shows
   exactly one gRPC status: among the headers, or in one terminal frame
   after everything else.  Nothing that did not end shows a terminal frame,
   and the end of the body (lines 1226-1231 and 1097) is marked once, last,
   and exactly when the response is complete. *)
OneStatus ==
  /\ (phase = "complete") <=> Ended(wire)
  /\ \A i \in 1..Len(wire) : wire[i] = End => i = Len(wire)
  /\ (phase = "complete" /\ ctx.transform) =>
       \/ shown.status_header /\ Statuses = {}
       \/ ~shown.status_header /\ Statuses = {Len(wire) - 1}
  /\ phase # "complete" => Statuses = {}

(* IMPLEMENTATION_PLAN.md, 126-132: a status is the upstream's own or stands
   for a failure of NGINX to reach it; it is never made up for a response
   that the upstream began. *)
NoForgedStatus ==
  \A i \in Statuses :
    \/ wire[i] = Trailer /\ IsNative /\ response.clean /\ response.trailer # 0
    \/ ~IsNative /\ LocalStatus # 0 /\ wire[i] = Status(LocalStatus)

(* A request is the module's when the client sent a gRPC-Web media type and
   some location that it passed through had the module on, whatever the
   header says by then and whichever locations came before or after; and it
   is answered in the mode that it asked for.  What is not adapted reaches
   the client as it came: a request that is not the module's, a response
   that is neither gRPC nor a mapped error; and of a mapped error the page
   does not. *)
OnlyOwnResponses ==
  phase \in {"body", "complete"} =>
    /\ ctx.active <=> (offered /\ request.media \in {"web", "web-text"})
    /\ ctx.active => ctx.text_response = request.accept_text
    /\ ctx.transform <=> (ctx.active /\ (IsNative \/ LocalStatus # 0))
    /\ ~ctx.transform =>
         /\ shown = Untouched
         /\ wire = [i \in 1..handed |-> Half(i)] \o Ending(phase = "complete")
    /\ ctx.local_error # 0 => \A i \in 1..Len(wire) : wire[i].what # "half"

(* Either mode delivers the same messages: what a client can read before the
   terminal frame is what the upstream sent before its trailers. *)
MessagesInOrder ==
  (IsNative /\ ctx.transform) =>
    \E n \in 0..Len(wire) :
      /\ \A i \in 1..n : wire[i] = IF ctx.text_response THEN Block(i) ELSE Half(i)
      /\ \A i \in (n + 1)..Len(wire) : wire[i].what \in {"trailer", "end"}
      /\ phase \in {"body", "complete"} =>
           n = IF ctx.text_response THEN handed \div 2 ELSE handed

(* A filter fails only for what the response is, never for how it was cut
   into calls.  In either mode the trailers must be there and within the
   limit; only text mode also looks at the messages; and a local error needs
   room for its own status block. *)
RefusedForCause ==
  phase = "refused" =>
    /\ ctx.transform
    /\ \/ ctx.local_error # 0 /\ StatusSize > limit
       \/ IsNative /\ response.clean
            /\ (response.trailer = 0 \/ response.trailer > limit)
       \/ IsNative /\ ctx.text_response /\ response.big # 0
       \/ IsNative /\ ctx.text_response /\ response.clean
            /\ response.halves % 2 # 0

(* RELEASE_NOTES_v0.1.0.md, 59: a malformed or incomplete upstream response
   cannot turn into a false grpc-status 0. *)
IncompleteNeverSucceeds ==
  (IsNative /\ response.halves % 2 # 0) =>
    Trailer \notin {wire[i] : i \in 1..Len(wire)}

=============================================================================
