------------------------------ MODULE LoadStream ------------------------------
(***************************************************************************)
(* One stream of the load generator: runStream of perf/loadgen/main.go     *)
(* with the decoders of protocol.go.  The response body arrives in pieces  *)
(* of any length; text bodies are undone to octets, octets to frames, and  *)
(* the frames are judged one by one.                                       *)
(*                                                                         *)
(* An octet of the decoded body is its position, a character of the text   *)
(* is its position among the characters that Push keeps.  One action is    *)
(* one read, or one turn of a loop.                                        *)
(***************************************************************************)
EXTENDS Integers, Sequences, FiniteSets

CONSTANTS
  HeaderSize,     \* octets of a frame header
  MaxFrame,       \* maxBenchmarkFrameBytes
  Messages,       \* cfg.Messages
  CancelAfters,   \* values of cfg.CancelAfterMessages considered, 0 for never
  Bodies          \* the response bodies considered

(***************************************************************************)
(* A body.  Frame k takes "size" octets; a data frame is good when its     *)
(* reply parses and has the marker and the length wanted, and carries a    *)
(* sequence number; a trailer is good when grpc-status is 0.  The body     *)
(* ends after "eof" octets, inside its last frame or at its end, or later: *)
(* what comes then starts no frame.  In text mode "blocks" gives the       *)
(* lengths of the pieces that were encoded one by one, and "junk" the      *)
(* quartet that is not base64, 0 for none; in binary mode blocks is empty. *)
(***************************************************************************)
Frames == [trailer : BOOLEAN, size : Nat, good : BOOLEAN, sequence : Nat]

SumTo(s, n) ==
  LET sum[i \in 0..n] == IF i = 0 THEN 0 ELSE s[i] + sum[i - 1] IN sum[n]

Sizes(b)    == [k \in 1..Len(b.frames) |-> b.frames[k].size]
StartOf(b, k) == SumTo(Sizes(b), k - 1)
Whole(b)    == SumTo(Sizes(b), Len(b.frames))

ASSUME LoadAssumption ==
  /\ HeaderSize \in Nat \ {0} /\ MaxFrame \in Nat /\ Messages \in Nat \ {0}
  /\ CancelAfters \subseteq 0..(Messages - 1)
  /\ \A b \in Bodies :
       /\ b \in [frames : Seq(Frames), eof : Nat, text : BOOLEAN,
                 blocks : Seq(Nat), junk : Nat]
       /\ \A k \in 1..Len(b.frames) :
            b.frames[k].size >= HeaderSize /\ StartOf(b, k) < b.eof
       /\ b.text => SumTo(b.blocks, Len(b.blocks)) = b.eof

VARIABLES
  body,        \* what the gateway sends
  cancel_after,
  pc,          \* "start", "read", "decode", "consume", "judge", "done"
  received,    \* characters (or octets, in binary mode) read so far
  readErr,     \* of the last Read: "none", "eof", "failed"
  encoded,     \* textFrameDecoder: characters not yet decoded
  binary,      \* decoder: octets that are no whole frame yet
  frames,      \* the frames of this Push, still to be judged
  result       \* streamResult, with expectedSequence and seenTrailer

config == <<body, cancel_after>>
vars   == <<config, pc, received, readErr, encoded, binary, frames, result>>

-----------------------------------------------------------------------------

(* The text as quartets: block j is its octets by threes, the last quartet
   of the block padded where they do not come out even. *)
QuartetsOfBlock(b, j) == (b.blocks[j] + 2) \div 3
Quartets(b)     == [j \in 1..Len(b.blocks) |-> QuartetsOfBlock(b, j)]
QuartetCount(b) == SumTo(Quartets(b), Len(b.blocks))

BlockOf(b, q) == CHOOSE j \in 1..Len(b.blocks) :
  SumTo(Quartets(b), j - 1) < q /\ q <= SumTo(Quartets(b), j)

Octets(b, q) ==
  LET j     == BlockOf(b, q)
      first == 3 * (q - SumTo(Quartets(b), j - 1) - 1)
      left  == b.blocks[j] - first
  IN  [i \in 1..(IF left < 3 THEN left ELSE 3) |->
         SumTo(b.blocks, j - 1) + first + i - 1]

Padded(b, q) == Len(Octets(b, q)) < 3

Length(b) == IF b.text THEN 4 * QuartetCount(b) ELSE b.eof

Quartet(c) == (c \div 4) + 1     \* the quartet of the character at c

Init ==
  /\ body \in Bodies
  /\ cancel_after \in CancelAfters
  /\ pc = "start"
  /\ received = 0
  /\ readErr = "none"
  /\ encoded = << >>
  /\ binary = << >>
  /\ frames = << >>
  /\ result = [Error |-> "none", Cancelled |-> FALSE, DataFrames |-> 0,
               seenTrailer |-> FALSE, status_ok |-> FALSE]

Fail(why) ==
  /\ result' = [result EXCEPT !.Error = why]
  /\ pc' = "done"

-----------------------------------------------------------------------------

(* client.Do fails; or the protocol or the HTTP status is not as required. *)
NoResponse(why) ==
  /\ pc = "start"
  /\ why \in {"request", "response"}
  /\ Fail(why)
  /\ UNCHANGED <<config, received, readErr, encoded, binary, frames>>

Response ==
  /\ pc = "start"
  /\ pc' = "read"
  /\ UNCHANGED <<config, received, readErr, encoded, binary, frames, result>>

(* response.Body.Read: n more characters, and perhaps why there are no more.
   The deadline of the whole run may strike at any time. *)
Read(n, err) ==
  /\ pc = "read"
  /\ (err = "eof") => (received + n = Length(body))
  /\ n # 0 \/ err # "none"
  /\ received' = received + n
  /\ readErr' = err
  /\ LET chunk == [i \in 1..n |-> received + i - 1]
     IN  IF body.text
         THEN encoded' = encoded \o chunk /\ UNCHANGED binary
         ELSE binary' = binary \o chunk /\ UNCHANGED encoded
  /\ pc' = IF n = 0 THEN "judge" ELSE IF body.text THEN "decode" ELSE "consume"
  /\ UNCHANGED <<config, frames, result>>

-----------------------------------------------------------------------------
(* textFrameDecoder.Push: one turn of the loop.                            *)

Complete == 4 * (Len(encoded) \div 4)

(* The end of the first padded quartet, else of the last whole one; a
   mistake: padding is not looked for. *)
WholeQuartets == Complete
BlockEnd ==
  LET ends == {e \in 1..Complete :
                 e % 4 = 0 /\ Padded(body, Quartet(encoded[e]))}
  IN  IF ends = {} THEN Complete ELSE CHOOSE e \in ends : \A f \in ends : e <= f

(* base64.StdEncoding.Decode: padding only where the input ends. *)
Decodable(end) ==
  \A e \in 1..end : e % 4 = 0 =>
    /\ Quartet(encoded[e]) # body.junk
    /\ Padded(body, Quartet(encoded[e])) => e = end

DecodedTo(end) ==
  LET OctetsAt[e \in 0..end] ==
        IF e < 4 THEN << >>
        ELSE OctetsAt[e - 4] \o Octets(body, Quartet(encoded[e]))
  IN  OctetsAt[end]

(* Whether the loop goes on after a block; a mistake: never. *)
OneBlock(end) == FALSE
MoreBlocks(end) == end # Complete

DecodeBlock ==
  /\ pc = "decode"
  /\ Len(encoded) >= 4
  /\ LET end == BlockEnd
     IN  IF Decodable(end)
         THEN /\ binary' = binary \o DecodedTo(end)
              /\ encoded' = SubSeq(encoded, end + 1, Len(encoded))
              /\ pc' = IF MoreBlocks(end) THEN "decode" ELSE "consume"
              /\ UNCHANGED result
         ELSE Fail("decode") /\ UNCHANGED <<binary, encoded>>
  /\ UNCHANGED <<config, received, readErr, frames>>

DecodeEnds ==
  /\ pc = "decode"
  /\ Len(encoded) < 4
  /\ pc' = "consume"
  /\ UNCHANGED <<config, received, readErr, encoded, binary, frames, result>>

-----------------------------------------------------------------------------
(* consumeFrames: one turn of the loop.                                    *)

(* The frame that a header at the head of the buffer announces.  Octets
   that start no frame announce an empty one with nothing good in it. *)
Announced ==
  LET at == {k \in 1..Len(body.frames) : StartOf(body, k) = binary[1]}
  IN  IF at = {} THEN [trailer |-> FALSE, size |-> HeaderSize, good |-> FALSE,
                       sequence |-> 0]
      ELSE body.frames[CHOOSE k \in at : TRUE]

HasHeader == Len(binary) >= HeaderSize
HasFrame  == HasHeader /\ Len(binary) >= Announced.size

(* An error loses the frames that this Push has found. *)
RefuseFrame ==
  /\ pc = "consume"
  /\ HasHeader
  /\ Announced.size - HeaderSize > MaxFrame
  /\ Fail("decode")
  /\ UNCHANGED <<config, received, readErr, encoded, binary, frames>>

TakeFrame ==
  /\ pc = "consume"
  /\ HasFrame
  /\ Announced.size - HeaderSize <= MaxFrame
  /\ frames' = Append(frames, Announced)
  /\ binary' = SubSeq(binary, Announced.size + 1, Len(binary))
  /\ UNCHANGED <<config, pc, received, readErr, encoded, result>>

ConsumeEnds ==
  /\ pc = "consume"
  /\ ~HasFrame
  /\ HasHeader => Announced.size - HeaderSize <= MaxFrame
  /\ pc' = "judge"
  /\ UNCHANGED <<config, received, readErr, encoded, binary, frames, result>>

-----------------------------------------------------------------------------
(* runStream: one turn of the loop over the frames.                        *)

JudgeTrailer ==
  /\ pc = "judge"
  /\ frames # << >>
  /\ Head(frames).trailer
  /\ result' = [result EXCEPT !.seenTrailer = TRUE,
                              !.status_ok = Head(frames).good]
  /\ frames' = Tail(frames)
  /\ UNCHANGED <<config, pc, received, readErr, encoded, binary>>

(* A mistake: one more message is awaited. *)
MoreThanEnough == cancel_after > 0 /\ result.DataFrames + 1 > cancel_after
Enough == cancel_after > 0 /\ result.DataFrames + 1 >= cancel_after

(* expectedSequence is always one more than the frames counted. *)
JudgeData ==
  /\ pc = "judge"
  /\ frames # << >>
  /\ ~Head(frames).trailer
  /\ IF ~Head(frames).good THEN Fail("parse")
     ELSE IF Head(frames).sequence # result.DataFrames + 1 THEN Fail("sequence")
     ELSE /\ result' = [result EXCEPT !.DataFrames = @ + 1,
                                      !.Cancelled = Enough]
          /\ pc' = IF Enough THEN "done" ELSE "judge"
  /\ frames' = Tail(frames)
  /\ UNCHANGED <<config, received, readErr, encoded, binary>>

(* A mistake: the end is not taken for one inside a frame. *)
AtEofOfFrame == readErr = "eof" /\ binary = << >>
AtEof == readErr = "eof"

(* A mistake: only the frames are asked whether they are whole. *)
LeftInText == encoded # << >>
Leftover   == encoded # << >> \/ binary # << >>

ReadOn ==
  /\ pc = "judge"
  /\ frames = << >>
  /\ ~AtEof
  /\ IF readErr = "failed" THEN Fail("read")
     ELSE pc' = "read" /\ UNCHANGED result
  /\ UNCHANGED <<config, received, readErr, encoded, binary, frames>>

(* decoder.Finish and the verdict. *)
Finish ==
  /\ pc = "judge"
  /\ frames = << >>
  /\ AtEof
  /\ IF Leftover THEN Fail("incomplete")
     ELSE IF result.DataFrames # Messages THEN Fail("count")
     ELSE IF ~result.seenTrailer THEN Fail("trailer")
     ELSE IF ~result.status_ok THEN Fail("status")
     ELSE pc' = "done" /\ UNCHANGED result
  /\ UNCHANGED <<config, received, readErr, encoded, binary, frames>>

Over ==
  /\ pc = "done"
  /\ UNCHANGED vars

Work ==
  \/ \E why \in {"request", "response"} : NoResponse(why)
  \/ Response
  \/ \E n \in 0..(Length(body) - received), err \in {"none", "eof", "failed"} :
       Read(n, err)
  \/ DecodeBlock \/ DecodeEnds
  \/ RefuseFrame \/ TakeFrame \/ ConsumeEnds
  \/ JudgeTrailer \/ JudgeData \/ ReadOn \/ Finish

Next == Work \/ Over

(* A gateway that says nothing is ended by the run's deadline, a failed
   Read, so the stream always has a next step. *)
Spec == Init /\ [][Next]_vars /\ WF_vars(Work)

-----------------------------------------------------------------------------

(* The messages among the first k frames. *)
DataCount(b, k) == Cardinality({i \in 1..k : ~b.frames[i].trailer})

GoodUpTo(b, n) ==
  /\ n <= DataCount(b, Len(b.frames))
  /\ \A k \in 1..Len(b.frames) :
       ~b.frames[k].trailer /\ DataCount(b, k) <= n =>
         b.frames[k].good /\ b.frames[k].sequence = DataCount(b, k)

(* The last trailer has the status 0. *)
EndsWell(b) ==
  \E k \in 1..Len(b.frames) :
    /\ b.frames[k].trailer /\ b.frames[k].good
    /\ \A i \in (k + 1)..Len(b.frames) : ~b.frames[i].trailer

WellAnswered(b) ==
  /\ b.eof = Whole(b)
  /\ DataCount(b, Len(b.frames)) = Messages /\ GoodUpTo(b, Messages)
  /\ EndsWell(b)

Passed == pc = "done" /\ result.Error = "none" /\ ~result.Cancelled

(* runStream, 331-348 (PERFORMANCE_PLAN.md, 97-99: complete DATA frames and
   the trailer's status): a stream counts as completed only if all of it came,
   every message once, good and in its place, not a byte short, and the last
   trailer has status 0.  That a trailer ends a response is not checked:
   messages may follow one, and a second one overrules the first (267-272). *)
PassedMeansWhole == Passed => WellAnswered(body)

(* SOAK_TESTING.md, 145-154: a cancellation is the expected one or none; it
   comes at the frame it was ordered for, after good frames only, and cannot
   hide a failure before it. *)
CancelledOnOrder ==
  /\ result.Cancelled =>
       /\ result.DataFrames = cancel_after
       /\ GoodUpTo(body, cancel_after)
       /\ result.Error = "none"
  /\ Passed => cancel_after = 0

Flawless(b) ==
  /\ b.junk = 0
  /\ \A k \in 1..Len(b.frames) : b.frames[k].size - HeaderSize <= MaxFrame
  /\ WellAnswered(b)

(* A flawless response fails only for want of one: wherever it is cut, and
   however its blocks were encoded, the decoder finds nothing wrong in it. *)
FailsForCause ==
  result.Error \notin {"none", "request", "response", "read"} => ~Flawless(body)

(* protocol.go, 51-53 and 117-119: between reads the decoder keeps less than
   a quartet of text and less than a frame of octets. *)
KeepsOnlyTail ==
  pc = "read" => Len(encoded) < 4 /\ ~HasFrame /\ frames = << >>

(* Every stream gets its verdict, so that wg.Wait returns. *)
Ends == <>(pc = "done")

=============================================================================
