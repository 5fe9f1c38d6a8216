-------------------------- MODULE MCRequestDecode --------------------------
EXTENDS RequestDecode
(***************************************************************************)
(* The small code (Q = 2) and a limit of four octets.  Every body of up to *)
(* four characters over two digits, the padding and a stray character;     *)
(* longer ones for text after the padding, for left-over characters and    *)
(* for both sides of the limits: four octets are one too many for an off_t *)
(* of MaxOffset, five for the frame limit.                                 *)
(***************************************************************************)
Some == {1, 6, Pad, Junk}

MCTexts ==
  UNION {[1..n -> Some] : n \in 0..4} \cup
  { <<1, 6, 3, 7, 2>>,
    <<1, 6, 3, Pad, 2>>,
    <<5, 1, 6, 3, 7, 2, Pad, Pad>>,
    <<1, 6, Pad, Pad, 3, 7, 2, 5>>,
    <<1, 6, 3, 7, 2, 5, 4, Pad>>,
    <<1, 6, 3, Pad, 2, 5, Pad, Pad>>,
    <<1, 6, Pad, Pad, 2, 5, 4, 1>> }
=============================================================================
