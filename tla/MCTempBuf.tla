------------------------------ MODULE MCTempBuf ------------------------------
EXTENDS TempBuf
(***************************************************************************)
(* A 5-bit size_t and first allocations of 3 bytes: the ladder 3, 6, 12,   *)
(* 24 ends below the limit, so that the overflow guard is reached.         *)
(***************************************************************************)
MCMaxSize == 31
=============================================================================
