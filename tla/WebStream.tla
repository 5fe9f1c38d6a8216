------------------------------ MODULE WebStream ------------------------------
(***************************************************************************)
(* What a gRPC-Web client is promised of one streaming response, whatever  *)
(* the chunking, the buffering and the failures on the way: it receives    *)
(* the messages of the upstream stream, each one whole and in order; a     *)
(* terminal (trailer) frame comes once, after the last message, and only   *)
(* for a stream that the upstream finished properly; otherwise the         *)
(* response breaks off after some complete message.                        *)
(* (docs/PROTOCOL_CONTRACT.md, "Trailer frame"; docs/ARCHITECTURE.md, 5.)  *)
(***************************************************************************)
EXTENDS Integers, Sequences

CONSTANT Plans  \* [messages : Seq, terminal, complete : BOOLEAN]

VARIABLES
  plan,     \* the stream being served, fixed when the response starts
  wire,     \* the blocks that reached the client
  outcome   \* "open", "finished" or "broken"

vars == <<plan, wire, outcome>>

Init ==
  /\ plan \in Plans
  /\ wire = << >>
  /\ outcome = "open"

Deliver ==
  /\ outcome = "open"
  /\ Len(wire) < Len(plan.messages)
  /\ wire' = Append(wire, plan.messages[Len(wire) + 1])
  /\ UNCHANGED <<plan, outcome>>

Finish ==
  /\ outcome = "open"
  /\ plan.complete
  /\ Len(wire) = Len(plan.messages)
  /\ wire' = Append(wire, plan.terminal)
  /\ outcome' = "finished"
  /\ UNCHANGED plan

BreakOff ==
  /\ outcome = "open"
  /\ outcome' = "broken"
  /\ UNCHANGED <<plan, wire>>

Next == Deliver \/ Finish \/ BreakOff

Spec == Init /\ [][Next]_vars

=============================================================================
