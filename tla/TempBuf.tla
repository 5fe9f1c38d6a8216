------------------------------- MODULE TempBuf -------------------------------
(***************************************************************************)
(* ngx_http_grpc_web_reserve_temp_buf on one recycled buffer: a sequence   *)
(* of requests, each of which keeps the buffer's storage when it is large  *)
(* enough and otherwise takes a larger one from the request's pool.  The   *)
(* pool gives nothing back before the request ends, so the storage that a  *)
(* growing buffer leaves behind counts too.                                *)
(***************************************************************************)
EXTENDS Capacity

CONSTANT MaxRequest     \* largest request that callers make

ASSUME MaxRequestAssumption == MaxRequest \in 0..MaxSize

VARIABLES
  pc,        \* "idle", "grow" inside the doubling loop, "failed" after NGX_ERROR
  current,   \* b->end - b->start, 0 before the first allocation
  required,  \* the request being served, or the last one served
  capacity,  \* the loop's local variable
  spent,     \* history: bytes taken from the pool for this buffer so far
  saturated, \* history: the overflow guard has been used
  before     \* history: "current" when the last request came in

vars == <<pc, current, required, capacity, spent, saturated, before>>

TypeOK ==
  /\ pc \in {"idle", "grow", "failed"}
  /\ current \in 0..MaxSize
  /\ required \in 0..MaxRequest
  /\ capacity \in 0..MaxSize
  /\ spent \in Nat
  /\ saturated \in BOOLEAN
  /\ before \in 0..MaxSize

Init ==
  /\ pc = "idle"
  /\ current = 0
  /\ required = 0
  /\ capacity = 0
  /\ spent = 0
  /\ saturated = FALSE
  /\ before = 0

-----------------------------------------------------------------------------

(* The storage is large enough: pos and last are reset and nothing else. *)
Reuse(n) ==
  /\ pc = "idle"
  /\ current >= n
  /\ required' = n
  /\ before' = current
  /\ UNCHANGED <<pc, current, capacity, spent, saturated>>

(* A mistake: growing to what is asked for instead of doubling. *)
StartGrowingExactly(n) ==
  /\ pc = "idle"
  /\ current < n
  /\ required' = n
  /\ before' = current
  /\ capacity' = n
  /\ pc' = "grow"
  /\ UNCHANGED <<current, spent, saturated>>

StartGrowing(n) ==
  /\ pc = "idle"
  /\ current < n
  /\ required' = n
  /\ before' = current
  /\ capacity' = IF current = 0 THEN InitialCapacity ELSE current
  /\ pc' = "grow"
  /\ UNCHANGED <<current, spent, saturated>>

(* A mistake: doubling wraps around in the range of size_t. *)
DoubleWrapping ==
  /\ pc = "grow"
  /\ capacity < required
  /\ capacity' = (2 * capacity) % (MaxSize + 1)
  /\ UNCHANGED <<pc, current, required, spent, saturated, before>>

Double ==
  /\ pc = "grow"
  /\ capacity < required
  /\ capacity <= MaxSize \div 2
  /\ capacity' = 2 * capacity
  /\ UNCHANGED <<pc, current, required, spent, saturated, before>>

(* One more doubling would overflow size_t. *)
Saturate ==
  /\ pc = "grow"
  /\ capacity < required
  /\ capacity > MaxSize \div 2
  /\ capacity' = required
  /\ saturated' = TRUE
  /\ UNCHANGED <<pc, current, required, spent, before>>

(* A mistake: allocating before the loop is done. *)
AllocateEarly ==
  /\ pc = "grow"
  /\ current' = capacity
  /\ spent' = spent + capacity
  /\ pc' = "idle"
  /\ UNCHANGED <<required, capacity, saturated, before>>

(* ngx_palloc and the new start and end. *)
Allocate ==
  /\ pc = "grow"
  /\ capacity >= required
  /\ current' = capacity
  /\ spent' = spent + capacity
  /\ pc' = "idle"
  /\ UNCHANGED <<required, capacity, saturated, before>>

(* ngx_palloc returns NULL: NGX_ERROR, which ends the HTTP request. *)
AllocationFails ==
  /\ pc = "grow"
  /\ capacity >= required
  /\ pc' = "failed"
  /\ UNCHANGED <<current, required, capacity, spent, saturated, before>>

Next ==
  \/ \E n \in 0..MaxRequest : Reuse(n) \/ StartGrowing(n)
  \/ Double \/ Saturate \/ Allocate \/ AllocationFails

Fairness == WF_vars(Double \/ Saturate \/ Allocate \/ AllocationFails)

Spec == Init /\ [][Next]_vars /\ Fairness

-----------------------------------------------------------------------------

(* The caller copies "required" bytes into the buffer next: it must hold
   them, and the loop must not have wrapped around. *)
Fits == pc = "idle" => required <= current

(* Doubling is what keeps a long stream's memory bounded: all the storage a
   recycled buffer ever took from the pool is less than twice what it holds
   now (source lines 841-859; M5 of the implementation plan). *)
PoolBounded == ~saturated => spent <= 2 * current

(* Every request is answered, at every width of size_t: the loop ends, with *)
(* what the operator of the other modules says.                             *)
Answered ==
  pc = "grow" ~> \/ pc = "failed"
                 \/ pc = "idle" /\ current = Grown(before, required)

=============================================================================
