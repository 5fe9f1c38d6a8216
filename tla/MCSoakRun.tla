----------------------------- MODULE MCSoakRun -------------------------------
EXTENDS SoakRun
(***************************************************************************)
(* Three cycles of loads of one stream, of which the first and the third   *)
(* restart the backend.  A sampler that dies after the policy's time and   *)
(* before the target leaves a soak that passes and is not linked.  What a  *)
(* leak adds only fails a soak, so that the passing run does without; the  *)
(* run of the disagreement, with fewer cycles, has it.                     *)
(***************************************************************************)
MCPolicy == [min_duration |-> 6, min_samples |-> 5, warmup |-> 2,
             max_slope |-> 0, max_growth |-> 4, max_peak |-> 20]
=============================================================================
