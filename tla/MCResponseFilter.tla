-------------------------- MODULE MCResponseFilter --------------------------
EXTENDS ResponseFilter
(***************************************************************************)
(* Two limits for frames; the status block fits only the second.  The gRPC *)
(* responses range over whole and truncated bodies, an oversized message,  *)
(* no, good and oversized trailers, and a clean or broken end; the others  *)
(* over mapped and unmapped errors and a foreign page.                     *)
(***************************************************************************)
MCRequests == [media : {"web", "web-text", "other"}, accept_text : BOOLEAN]

Streams ==
  [status : {200}, grpc : {TRUE}, empty : {FALSE}, status_header : {FALSE},
   halves : 0..5, big : {0, 2}, trailer : {0, 1, 2, 3}, clean : BOOLEAN]

HeadersOnly ==
  [status : {200}, grpc : {TRUE}, empty : {TRUE}, status_header : BOOLEAN,
   halves : {0}, big : {0}, trailer : {0}, clean : {TRUE}]

Pages ==
  [status : {200, 404, 408, 413, 502, 503, 504}, grpc : {FALSE},
   empty : {FALSE}, status_header : {FALSE}, halves : 0..2, big : {0},
   trailer : {0}, clean : {TRUE}]

MCResponses == Streams \cup HeadersOnly \cup Pages
=============================================================================
