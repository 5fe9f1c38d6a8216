------------------------------- MODULE Base64 -------------------------------
(***************************************************************************)
(* The base64 arithmetic of src/grpc_web_base64.c.                         *)
(*                                                                         *)
(* A character is what grpc_web_b64_value makes of it: the digit's value,  *)
(* Pad for '=', Junk for anything else.  A digit has three units of log2 Q *)
(* bits and an octet four of them, so that four digits are three octets:   *)
(* Q = 4 is base64; Q = 2 has the same carries between units in a code     *)
(* small enough to be enumerated.                                          *)
(***************************************************************************)
EXTENDS Integers, Sequences, FiniteSets

CONSTANT Q

ASSUME QAssumption == Q \in {2, 4}

Digits == 0..(Q * Q * Q - 1)
Octets == 0..(Q * Q * Q * Q - 1)

Pad  == -2
Junk == -1
Chars == Digits \cup {Pad, Junk}

-----------------------------------------------------------------------------

QuartetOK(q) ==
  /\ q[1] >= 0
  /\ q[2] >= 0
  /\ q[3] # Junk
  /\ q[4] # Junk
  /\ q[3] = Pad => q[4] = Pad

Padded(q) == q[3] = Pad \/ q[4] = Pad

(* The octets that a good quartet stands for. *)
DecodeQuartet(q) ==
  LET first  == q[1] * Q + q[2] \div (Q * Q)
      second == (q[2] % (Q * Q)) * (Q * Q) + q[3] \div Q
      third  == (q[3] % Q) * (Q * Q * Q) + q[4]
  IN  IF q[3] = Pad THEN <<first>>
      ELSE IF q[4] = Pad THEN <<first, second>>
      ELSE <<first, second, third>>

(* The quartet for three octets, and for the one or two that end a text. *)
EncodeGroup(g) ==
  LET b0 == g[1]
      b1 == IF Len(g) > 1 THEN g[2] ELSE 0
      d0 == b0 \div Q
      d1 == (b0 % Q) * (Q * Q) + b1 \div (Q * Q)
      d2 == (b1 % (Q * Q)) * Q
  IN  IF Len(g) = 1 THEN <<d0, d1, Pad, Pad>>
      ELSE IF Len(g) = 2 THEN <<d0, d1, d2, Pad>>
      ELSE <<d0, d1, d2 + g[3] \div (Q * Q * Q), g[3] % (Q * Q * Q)>>

-----------------------------------------------------------------------------
(* What a whole text means, read as one row of units: the reference that   *)
(* the incremental codecs are checked against.                             *)

Valid(text) ==
  /\ Len(text) % 4 = 0
  /\ \A i \in 1..Len(text) :
       /\ text[i] # Junk
       /\ text[i] = Pad => /\ i > Len(text) - 2
                           /\ text[Len(text)] = Pad

Meaning(text) ==
  LET pads    == Cardinality({i \in 1..Len(text) : text[i] = Pad})
      weight  == <<Q * Q, Q, 1>>
      unit(u) == (text[(u \div 3) + 1] \div weight[(u % 3) + 1]) % Q
  IN  [i \in 1..(3 * (Len(text) \div 4) - pads) |->
         LET u == 4 * (i - 1)
         IN  unit(u) * (Q * Q * Q) + unit(u + 1) * (Q * Q) + unit(u + 2) * Q + unit(u + 3)]

=============================================================================
