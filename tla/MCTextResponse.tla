--------------------------- MODULE MCTextResponse ---------------------------
EXTENDS TextResponse
(***************************************************************************)
(* Real five-byte headers, frames of 0 to 3 bytes with a limit of 2, and   *)
(* first allocations of 6 bytes, so that both kinds of buffers grow.       *)
(***************************************************************************)
MCStreams ==
  { \* two complete messages, the first one empty
    [cuts |-> <<0, 5, 12>>, eof |-> 12, trailer |-> 2, clean |-> TRUE],
    \* no message at all
    [cuts |-> <<0>>, eof |-> 0, trailer |-> 1, clean |-> TRUE],
    \* cut short inside a payload, and inside a header
    [cuts |-> <<0, 6, 13>>, eof |-> 12, trailer |-> 1, clean |-> TRUE],
    [cuts |-> <<0, 5, 11>>, eof |-> 8, trailer |-> 1, clean |-> TRUE],
    \* the second frame announces far more than the limit
    [cuts |-> <<0, 6, 41>>, eof |-> 12, trailer |-> 1, clean |-> TRUE],
    \* no trailers, and trailers over the limit
    [cuts |-> <<0, 6>>, eof |-> 6, trailer |-> 0, clean |-> TRUE],
    [cuts |-> <<0, 6>>, eof |-> 6, trailer |-> 3, clean |-> TRUE],
    \* the upstream fails after a message, and inside one
    [cuts |-> <<0, 6>>, eof |-> 6, trailer |-> 0, clean |-> FALSE],
    [cuts |-> <<0, 6, 12>>, eof |-> 9, trailer |-> 0, clean |-> FALSE],
    \* three messages, for the recycling
    [cuts |-> <<0, 5, 11, 16>>, eof |-> 16, trailer |-> 1, clean |-> TRUE] }
=============================================================================
