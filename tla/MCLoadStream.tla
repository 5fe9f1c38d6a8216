---------------------------- MODULE MCLoadStream ----------------------------
EXTENDS LoadStream
(***************************************************************************)
(* Headers of two octets, frames of two to five, two messages wanted.      *)
(* Every body comes in binary, as one text and as a block for each frame.  *)
(***************************************************************************)
D(n, seq) == [trailer |-> FALSE, size |-> n, good |-> TRUE, sequence |-> seq]
Bad(n)    == [trailer |-> FALSE, size |-> n, good |-> FALSE, sequence |-> 2]
T(n, ok)  == [trailer |-> TRUE, size |-> n, good |-> ok, sequence |-> 0]

MCFrames ==
  { <<D(2, 1), D(3, 2), T(4, TRUE)>>,
    <<D(4, 1), D(2, 2), T(3, FALSE)>>,
    <<D(3, 1), T(2, FALSE), D(4, 2), T(3, TRUE)>>,
    <<D(4, 1), D(3, 2)>>,
    <<D(2, 1), D(4, 1), T(3, TRUE)>>,
    <<D(3, 1), Bad(3), T(2, TRUE)>>,
    <<D(2, 1), D(2, 2), D(2, 3), T(3, TRUE)>>,
    <<D(2, 1), D(3, 2), T(3, TRUE), D(9, 3)>>,
    <<D(2, 1), D(3, 2), T(3, TRUE), T(4, TRUE)>>,
    <<T(4, TRUE)>> }

(* Whole, cut short by one octet, or followed by two that start no frame. *)
Cases == {[frames |-> f, short |-> s] : f \in MCFrames, s \in {-2, 0, 1}}

Binary(c, whole) ==
  [frames |-> c.frames, eof |-> whole - c.short, text |-> FALSE,
   blocks |-> << >>, junk |-> 0]

OneText(c, whole, junk) ==
  [frames |-> c.frames, eof |-> whole - c.short, text |-> TRUE,
   blocks |-> <<whole - c.short>>, junk |-> junk]

ByFrame(c, whole) ==
  [frames |-> c.frames, eof |-> whole - c.short, text |-> TRUE,
   blocks |-> [k \in 1..Len(c.frames) |->
                 IF k = Len(c.frames) THEN c.frames[k].size - c.short
                 ELSE c.frames[k].size],
   junk |-> 0]

MCBodies ==
  UNION {LET whole == SumTo([k \in 1..Len(c.frames) |-> c.frames[k].size],
                            Len(c.frames))
         IN  {Binary(c, whole), OneText(c, whole, 0), OneText(c, whole, 2),
              ByFrame(c, whole)} : c \in Cases}
=============================================================================
