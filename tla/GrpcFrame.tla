------------------------------ MODULE GrpcFrame ------------------------------
(***************************************************************************)
(* The incremental gRPC frame parser of src/grpc_web_frame.c.              *)
(*                                                                         *)
(* A byte of the native stream is named by its position in the stream, so  *)
(* that copying, dropping or repeating a byte shows.  What the four length *)
(* bytes of a header say is looked up in "field": field[p] is the length   *)
(* that a header starting at position p carries.                           *)
(***************************************************************************)
EXTENDS Integers, Sequences

CONSTANT HeaderSize     \* GRPC_WEB_FRAME_HEADER_SIZE, one flag and a length

ASSUME HeaderSizeAssumption == HeaderSize \in Nat \ {0}

(* The n bytes of the stream from position p on. *)
Bytes(p, n) == [i \in 1..n |-> p + i - 1]

Lesser(a, b) == IF a < b THEN a ELSE b

-----------------------------------------------------------------------------

(* grpc_web_frame_parser_t: header_len is Len(header). *)
Parsers == [header : Seq(Nat), header_ready : BOOLEAN,
            length : Nat, payload_seen : Nat]

(* grpc_web_frame_parser_init and grpc_web_frame_next: memset to zero. *)
FreshParser == [header |-> << >>, header_ready |-> FALSE,
                length |-> 0, payload_seen |-> 0]

(* How many of src_len bytes one call consumes: up to the end of the header,
   or of the payload, never both. *)
Consumes(p, src_len) ==
  Lesser(src_len, IF p.header_ready THEN p.length - p.payload_seen
                                    ELSE HeaderSize - Len(p.header))

(* The parser after grpc_web_frame_consume of src_len bytes from src. *)
AfterConsume(p, src, src_len, field) ==
  LET n == Consumes(p, src_len)
      h == p.header \o Bytes(src, n)
  IN  IF p.header_ready
      THEN [p EXCEPT !.payload_seen = @ + n]
      ELSE IF Len(h) = HeaderSize
           THEN [p EXCEPT !.header = h, !.header_ready = TRUE,
                          !.length = field[h[1]]]
           ELSE [p EXCEPT !.header = h]

(* A mistake: a frame without payload is waited for. *)
IsCompleteWithPayload(p) ==
  p.header_ready /\ p.length # 0 /\ p.payload_seen = p.length

IsComplete(p) == p.header_ready /\ p.payload_seen = p.length

=============================================================================
