------------------------------ MODULE Capacity ------------------------------
(***************************************************************************)
(* The capacity that ngx_http_grpc_web_reserve_temp_buf settles on.        *)
(* TempBuf runs the doubling loop itself and is checked against Grown;     *)
(* modules that only need the result use Grown.                            *)
(***************************************************************************)
EXTENDS Integers

CONSTANTS InitialCapacity,  \* capacity of a first allocation, 1024 in the code
          MaxSize,          \* NGX_MAX_SIZE_T_VALUE
          Width             \* more doublings than a size_t has bits

ASSUME CapacityAssumption ==
  /\ InitialCapacity \in 1..MaxSize
  /\ MaxSize \in Nat
  /\ Width \in Nat

(* The doublings of one byte come out of the range of size_t. *)
ASSUME WidthAssumption == MaxSize < 2^Width

(* Arithmetic that the provers lack: they know no exponents. *)
ASSUME PowersOfTwo ==
  /\ 2^0 = 1
  /\ \A k \in 0..Width : 2^k \in Nat /\ 2^(k + 1) = 2 * 2^k

(* The capacities that doubling reaches from "base" without overflow. *)
Ladder(base) == {c \in base..MaxSize : \E k \in 0..Width : c = base * 2^k}

(* The smallest rung that holds "required"; when doubling would overflow
   before it gets there, exactly what is required. *)
Grown(current, required) ==
  LET base  == IF current = 0 THEN InitialCapacity ELSE current
      rungs == {c \in Ladder(base) : c >= required}
  IN  IF current >= required THEN current
      ELSE IF rungs = {} THEN required
      ELSE CHOOSE c \in rungs : \A d \in rungs : c <= d

=============================================================================
