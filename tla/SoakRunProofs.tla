--------------------------- MODULE SoakRunProofs ----------------------------
(***************************************************************************)
(* What the verdict on a soak says of the cycles and of the samples behind *)
(* it, for soaks of every length, with any number of streams and deaths.   *)
(*                                                                         *)
(* events.json only has sums and flags.  No load reports more than it has  *)
(* streams, so an observed sum never exceeds the expected one: two sums    *)
(* that are equal at the end have been equal in every cycle, and a         *)
(* recovery flag that is still set was never cleared.  That is Ledger.     *)
(* The flag of the disruption is the other way round: set once, it stands  *)
(* for all restarts, and says that one of them hit a stream.  That is      *)
(* Hits.                                                                   *)
(***************************************************************************)
EXTENDS SoakRun, SequenceTheorems, TLAPS

Phases == {"sampler", "warmup", "steady", "churn", "cancel", "restart", "recover",
           "reset", "elapsed", "final", "evaluate", "link", "passed", "linked", "failed"}

Events ==
  [errors : BOOLEAN, cancel_expected : Nat, cancel_observed : Nat,
   restarts : Nat, disrupted : BOOLEAN, restart_recovered : BOOLEAN,
   reset_expected : Nat, reset_observed : Nat, reset_recovered : BOOLEAN,
   final_probe : BOOLEAN, master_kept : BOOLEAN]

Rows == [time : Nat, rss : Nat]

Types ==
  /\ pc \in Phases /\ now \in Nat /\ rss \in Nat /\ leak \in Nat
  /\ events \in Events
  /\ samples \in Seq(Rows)
  /\ sampler \in BOOLEAN /\ spotless \in BOOLEAN /\ quiet \in Nat

(* No sum has overtaken what was expected. *)
Within(e) ==
  /\ e.cancel_observed <= e.cancel_expected
  /\ e.reset_observed <= e.reset_expected

(* Nothing in the events speaks against the soak. *)
Settled(e) ==
  /\ ~e.errors /\ e.restart_recovered /\ e.reset_recovered
  /\ e.cancel_observed = e.cancel_expected
  /\ e.reset_observed = e.reset_expected

Ledger == Within(events) /\ (Settled(events) => spotless)

(* What the flag of the disruption stands for. *)
Hits ==
  /\ quiet <= events.restarts
  /\ events.disrupted => quiet < events.restarts

IInv == Types /\ Ledger /\ Hits /\ PassMeansEveryCycle

-----------------------------------------------------------------------------
(* What the evaluators' empty lists of reasons say *)

LEMMA Constants ==
  /\ Target \in Nat /\ RestartEvery \in Nat /\ Streams \in Nat
  /\ Policy.min_duration \in Nat
  /\ BaseRss \in Nat /\ Leaks \subseteq Nat
BY SoakAssumption

LEMMA NoEventReason ==
  ASSUME NEW e, EventReasons(e) = {}
  PROVE  /\ ~e.errors
         /\ e.restart_recovered /\ e.reset_recovered
         /\ e.cancel_observed = e.cancel_expected
         /\ e.reset_observed = e.reset_expected
         /\ e.disrupted
<1>1. CASE e.errors
  <2>1. "errors" \in EventReasons(e)
    BY <1>1 DEF EventReasons
  <2>. QED BY <2>1
<1>2. CASE ~e.restart_recovered
  <2>1. "backend_recovery" \in EventReasons(e)
    BY <1>2 DEF EventReasons
  <2>. QED BY <2>1
<1>3. CASE ~e.reset_recovered
  <2>1. "transport_recovery" \in EventReasons(e)
    BY <1>3 DEF EventReasons
  <2>. QED BY <2>1
<1>4. CASE e.cancel_observed # e.cancel_expected
  <2>1. "cancellation_accounting" \in EventReasons(e)
    BY <1>4 DEF EventReasons
  <2>. QED BY <2>1
<1>5. CASE e.reset_observed # e.reset_expected
  <2>1. "transport_reset_accounting" \in EventReasons(e)
    BY <1>5 DEF EventReasons
  <2>. QED BY <2>1
<1>6. CASE ~e.disrupted
  <2>1. "backend_disruption" \in EventReasons(e)
    BY <1>6 DEF EventReasons
  <2>. QED BY <2>1
<1>. QED BY <1>1, <1>2, <1>3, <1>4, <1>5, <1>6

-----------------------------------------------------------------------------
(* Steps *)

(* What a tick does to the types. *)
LEMMA TickTypes ==
  ASSUME Types, NEW died \in BOOLEAN, Tick(died)
  PROVE  /\ now' \in Nat /\ rss' \in Nat /\ leak' \in Nat /\ sampler' \in BOOLEAN
         /\ samples' \in Seq(Rows)
<1>1. now' \in Nat
  BY DEF Tick, Types
<1>2. rss' \in Nat /\ leak' \in Nat
  BY Constants DEF Tick, Worker, Types
<1>3. sampler' \in BOOLEAN
  BY DEF Tick, Types
<1>4. [time |-> now, rss |-> rss] \in Rows
  BY DEF Types, Rows
<1>5. samples \in Seq(Rows) /\ Append(samples, [time |-> now, rss |-> rss]) \in Seq(Rows)
  <2>1. samples \in Seq(Rows)
    BY DEF Types
  <2>. QED BY <1>4, <2>1, AppendProperties
<1>6. samples' \in Seq(Rows)
  <2>1. samples' = Append(samples, [time |-> now, rss |-> rss]) \/ samples' = samples
    BY DEF Tick
  <2>. QED BY <1>5, <2>1
<1>. QED BY <1>1, <1>2, <1>3, <1>6

(* Where the script has not passed, nothing is claimed. *)
LEMMA NotPassed ==
  ASSUME pc' \notin {"link", "linked", "passed"}
  PROVE  PassMeansEveryCycle'
BY DEF PassMeansEveryCycle, Passed

(* Where nothing is counted, the ledger stays as it is. *)
LEMMA SameLedger ==
  ASSUME Ledger, UNCHANGED <<events, spotless>>
  PROVE  Ledger'
BY DEF Ledger, Within, Settled

LEMMA SameHits ==
  ASSUME Hits, quiet' = quiet,
         events'.restarts = events.restarts, events'.disrupted = events.disrupted
  PROVE  Hits'
BY DEF Hits

(* A load without cancellations counts an error if it did not go well. *)
LEMMA LoadKeeps ==
  ASSUME IInv, NEW phase \in Phases, NEW next \in Phases \ {"link", "linked", "passed"},
         Load(phase, next)
  PROVE  IInv'
<1>1. PICK o \in Outcomes, died \in BOOLEAN :
        /\ events' = [events EXCEPT !.errors = @ \/ Unexpected(o)]
        /\ Note(o.rc = 0)
        /\ Tick(died)
  BY DEF Load
<1>2. events \in Events /\ Types /\ Ledger
  BY DEF IInv, Types
<1>3. pc' = next
  BY DEF Load
<1>4. events' \in Events
  <2>1. (events.errors \/ Unexpected(o)) \in BOOLEAN
    OBVIOUS
  <2>. QED BY <1>1, <1>2, <2>1 DEF Events
<1>5. spotless' \in BOOLEAN /\ quiet' \in Nat
  BY <1>1, <1>2 DEF Note, Types
<1>6. Types'
  BY <1>1, <1>2, <1>3, <1>4, <1>5, TickTypes DEF Types
<1>7. /\ events'.cancel_observed = events.cancel_observed
      /\ events'.cancel_expected = events.cancel_expected
      /\ events'.reset_observed = events.reset_observed
      /\ events'.reset_expected = events.reset_expected
  BY <1>1, <1>2 DEF Events
<1>8. /\ events'.errors = (events.errors \/ o.rc # 0)
      /\ events'.restart_recovered = events.restart_recovered
      /\ events'.reset_recovered = events.reset_recovered
  BY <1>1, <1>2 DEF Events, Unexpected
<1>9. Within(events')
  BY <1>2, <1>7 DEF Ledger, Within
<1>10. ASSUME Settled(events') PROVE spotless'
  <2>1. ~events.errors /\ o.rc = 0
    BY <1>8, <1>10 DEF Settled
  <2>2. Settled(events)
    BY <1>7, <1>8, <1>10, <2>1 DEF Settled
  <2>3. spotless
    BY <1>2, <2>2 DEF Ledger
  <2>. QED BY <1>1, <2>1, <2>3 DEF Note
<1>11. Ledger'
  BY <1>9, <1>10 DEF Ledger
<1>12. PassMeansEveryCycle'
  BY <1>3, NotPassed
<1>13. Hits'
  <2>1. events'.restarts = events.restarts /\ events'.disrupted = events.disrupted
    BY <1>1, <1>2 DEF Events
  <2>. QED BY <1>1, <2>1, SameHits DEF IInv, Note
<1>. QED BY <1>6, <1>11, <1>12, <1>13 DEF IInv

(* What neither loads nor records keep: the phases around the cycles. *)
LEMMA PlainKeeps ==
  ASSUME IInv, NEW died \in BOOLEAN, Tick(died), UNCHANGED <<events, ledger>>,
         pc' \in Phases \ {"link", "linked", "passed"}
  PROVE  IInv'
<1>1. Types /\ Ledger
  BY DEF IInv
<1>2. Types'
  BY <1>1, TickTypes DEF Types, ledger
<1>3. Ledger'
  BY <1>1, SameLedger DEF ledger
<1>4. Hits'
  BY SameHits DEF IInv, ledger
<1>. QED BY <1>2, <1>3, <1>4, NotPassed DEF IInv

LEMMA CancelKeeps ==
  ASSUME IInv, Cancel
  PROVE  IInv'
<1>1. PICK o \in Outcomes, died \in BOOLEAN :
        /\ events' = [events EXCEPT !.cancel_expected = @ + Streams,
                                    !.cancel_observed = @ + o.cancelled,
                                    !.errors = @ \/ Unexpected(o)]
        /\ Note(o.cancelled = Streams /\ o.rc = 0)
        /\ Tick(died)
  BY DEF Cancel
<1>2. events \in Events /\ Types /\ Ledger
  BY DEF IInv, Types
<1>3. pc' \in {"restart", "reset"}
  BY DEF Cancel
<1>4. o.cancelled \in Nat /\ o.cancelled <= Streams
  BY Constants DEF Outcomes
<1>5. /\ events'.cancel_observed = events.cancel_observed + o.cancelled
      /\ events'.cancel_expected = events.cancel_expected + Streams
      /\ events'.reset_observed = events.reset_observed
      /\ events'.reset_expected = events.reset_expected
  BY <1>1, <1>2 DEF Events
<1>6. /\ events'.errors = (events.errors \/ o.rc # 0)
      /\ events'.restart_recovered = events.restart_recovered
      /\ events'.reset_recovered = events.reset_recovered
  BY <1>1, <1>2 DEF Events, Unexpected
<1>7. events' \in Events
  <2>1. (events.errors \/ Unexpected(o)) \in BOOLEAN
    OBVIOUS
  <2>2. events.cancel_expected + Streams \in Nat /\ events.cancel_observed + o.cancelled \in Nat
    BY <1>2, <1>4, Constants DEF Events
  <2>. QED BY <1>1, <1>2, <2>1, <2>2 DEF Events
<1>8. spotless' \in BOOLEAN /\ quiet' \in Nat
  BY <1>1, <1>2 DEF Note, Types
<1>9. Types'
  BY <1>1, <1>2, <1>3, <1>7, <1>8, TickTypes DEF Types, Phases
<1>10. /\ events.cancel_observed \in Nat /\ events.cancel_expected \in Nat
       /\ events.cancel_observed <= events.cancel_expected
       /\ events.reset_observed <= events.reset_expected
  BY <1>2 DEF Events, Ledger, Within
<1>11. Within(events')
  BY <1>4, <1>5, <1>10, Constants DEF Within
<1>12. ASSUME Settled(events') PROVE spotless'
  <2>1. ~events.errors /\ o.rc = 0
    BY <1>6, <1>12 DEF Settled
  <2>2. events'.cancel_observed = events'.cancel_expected
    BY <1>12 DEF Settled
  <2>3. events.cancel_observed = events.cancel_expected /\ o.cancelled = Streams
    BY <1>4, <1>5, <1>10, <2>2, Constants
  <2>4. Settled(events)
    BY <1>5, <1>6, <1>12, <2>1, <2>3 DEF Settled
  <2>5. spotless
    BY <1>2, <2>4 DEF Ledger
  <2>. QED BY <1>1, <2>1, <2>3, <2>5 DEF Note
<1>13. Ledger'
  BY <1>11, <1>12 DEF Ledger
<1>14. PassMeansEveryCycle'
  BY <1>3, NotPassed
<1>15. Hits'
  <2>1. events'.restarts = events.restarts /\ events'.disrupted = events.disrupted
    BY <1>1, <1>2 DEF Events
  <2>. QED BY <1>1, <2>1, SameHits DEF IInv, Note
<1>. QED BY <1>9, <1>13, <1>14, <1>15 DEF IInv

(* The errors of a load under a restart are the disruption that is wanted. *)
LEMMA RestartKeeps ==
  ASSUME IInv, RestartBackend
  PROVE  IInv'
<1>1. PICK o \in Outcomes, died \in BOOLEAN :
        /\ events' = [events EXCEPT !.restarts = @ + 1, !.disrupted = @ \/ o.errors > 0]
        /\ quiet' = IF o.errors = 0 THEN quiet + 1 ELSE quiet
        /\ Tick(died)
  BY DEF RestartBackend
<1>2. events \in Events /\ Types /\ Ledger
  BY DEF IInv, Types
<1>3. pc' = "recover" /\ UNCHANGED spotless
  BY DEF RestartBackend
<1>4. events' \in Events
  <2>1. (events.disrupted \/ o.errors > 0) \in BOOLEAN
    OBVIOUS
  <2>2. events.restarts + 1 \in Nat
    BY <1>2 DEF Events
  <2>. QED BY <1>1, <1>2, <2>1, <2>2 DEF Events
<1>5. Types'
  <2>1. quiet' \in Nat
    BY <1>1, <1>2 DEF Types
  <2>. QED BY <1>1, <1>2, <1>3, <1>4, <2>1, TickTypes DEF Types, Phases
<1>6. Ledger'
  <2>1. Within(events') = Within(events)
    BY <1>1, <1>2 DEF Events, Within
  <2>2. Settled(events') = Settled(events)
    BY <1>1, <1>2 DEF Events, Settled
  <2>. QED BY <1>2, <1>3, <2>1, <2>2 DEF Ledger
<1>7. PassMeansEveryCycle'
  BY <1>3, NotPassed
<1>8. Hits'
  <2>1. events'.restarts = events.restarts + 1 /\ events.restarts \in Nat /\ quiet \in Nat
    BY <1>1, <1>2 DEF Events, Types
  <2>2. quiet <= events.restarts /\ (events.disrupted => quiet < events.restarts)
    BY DEF IInv, Hits
  <2>3. events'.disrupted => events.disrupted \/ o.errors > 0
    BY <1>1, <1>2 DEF Events
  <2>4. o.errors \in Int
    BY Constants DEF Outcomes
  <2>5. quiet' <= events.restarts + 1
    BY <1>1, <2>1, <2>2
  <2>6. CASE o.errors > 0
    <3>1. quiet' < events'.restarts
      BY <1>1, <2>1, <2>2, <2>4, <2>6
    <3>. QED BY <3>1, <2>1, <2>5 DEF Hits
  <2>7. CASE ~(o.errors > 0)
    <3>1. events.disrupted => quiet' < events'.restarts
      BY <1>1, <2>1, <2>2
    <3>. QED BY <3>1, <2>1, <2>3, <2>5, <2>7 DEF Hits
  <2>. QED BY <2>6, <2>7
<1>. QED BY <1>5, <1>6, <1>7, <1>8 DEF IInv

LEMMA RecoverKeeps ==
  ASSUME IInv, Recover
  PROVE  IInv'
<1>1. PICK healthy \in BOOLEAN :
        /\ events' = [events EXCEPT !.restart_recovered = @ /\ healthy]
        /\ Note(healthy)
  BY DEF Recover
<1>2. events \in Events /\ Types /\ Ledger
  BY DEF IInv, Types
<1>3. pc' = "reset" /\ Tick(FALSE)
  BY DEF Recover
<1>4. events' \in Events
  <2>1. (events.restart_recovered /\ healthy) \in BOOLEAN
    OBVIOUS
  <2>. QED BY <1>1, <1>2, <2>1 DEF Events
<1>5. spotless' \in BOOLEAN /\ quiet' \in Nat
  BY <1>1, <1>2 DEF Note, Types
<1>6. Types'
  BY <1>2, <1>3, <1>4, <1>5, TickTypes DEF Types, Phases
<1>7. Within(events')
  BY <1>1, <1>2 DEF Events, Ledger, Within
<1>8. ASSUME Settled(events') PROVE spotless'
  <2>1. events'.restart_recovered = (events.restart_recovered /\ healthy)
    BY <1>1, <1>2 DEF Events
  <2>2. events.restart_recovered /\ healthy
    BY <1>8, <2>1 DEF Settled
  <2>3. /\ events'.errors = events.errors
        /\ events'.reset_recovered = events.reset_recovered
        /\ events'.cancel_observed = events.cancel_observed
        /\ events'.cancel_expected = events.cancel_expected
        /\ events'.reset_observed = events.reset_observed
        /\ events'.reset_expected = events.reset_expected
    BY <1>1, <1>2 DEF Events
  <2>4. Settled(events)
    BY <1>8, <2>2, <2>3 DEF Settled
  <2>5. spotless
    BY <1>2, <2>4 DEF Ledger
  <2>. QED BY <1>1, <2>2, <2>5 DEF Note
<1>9. Ledger'
  BY <1>7, <1>8 DEF Ledger
<1>10. PassMeansEveryCycle'
  BY <1>3, NotPassed
<1>11. Hits'
  <2>1. events'.restarts = events.restarts /\ events'.disrupted = events.disrupted
    BY <1>1, <1>2 DEF Events
  <2>. QED BY <1>1, <2>1, SameHits DEF IInv, Note
<1>. QED BY <1>6, <1>9, <1>10, <1>11 DEF IInv

LEMMA ResetKeeps ==
  ASSUME IInv, TransportReset
  PROVE  IInv'
<1>1. PICK o \in Outcomes, died \in BOOLEAN, healthy \in BOOLEAN :
        /\ events' = [events EXCEPT !.reset_expected = @ + Streams,
                                    !.reset_observed = @ + o.errors,
                                    !.reset_recovered = @ /\ healthy]
        /\ Note(o.errors = Streams /\ healthy)
        /\ Tick(died)
  BY DEF TransportReset
<1>2. events \in Events /\ Types /\ Ledger
  BY DEF IInv, Types
<1>3. pc' = "elapsed"
  BY DEF TransportReset
<1>4. o.errors \in Nat /\ o.errors <= Streams
  BY Constants DEF Outcomes
<1>5. /\ events'.reset_observed = events.reset_observed + o.errors
      /\ events'.reset_expected = events.reset_expected + Streams
      /\ events'.cancel_observed = events.cancel_observed
      /\ events'.cancel_expected = events.cancel_expected
  BY <1>1, <1>2 DEF Events
<1>6. /\ events'.errors = events.errors
      /\ events'.restart_recovered = events.restart_recovered
      /\ events'.reset_recovered = (events.reset_recovered /\ healthy)
  BY <1>1, <1>2 DEF Events
<1>7. events' \in Events
  <2>1. (events.reset_recovered /\ healthy) \in BOOLEAN
    OBVIOUS
  <2>2. events.reset_expected + Streams \in Nat /\ events.reset_observed + o.errors \in Nat
    BY <1>2, <1>4, Constants DEF Events
  <2>. QED BY <1>1, <1>2, <2>1, <2>2 DEF Events
<1>8. spotless' \in BOOLEAN /\ quiet' \in Nat
  BY <1>1, <1>2 DEF Note, Types
<1>9. Types'
  BY <1>1, <1>2, <1>3, <1>7, <1>8, TickTypes DEF Types, Phases
<1>10. /\ events.reset_observed \in Nat /\ events.reset_expected \in Nat
       /\ events.reset_observed <= events.reset_expected
       /\ events.cancel_observed <= events.cancel_expected
  BY <1>2 DEF Events, Ledger, Within
<1>11. Within(events')
  BY <1>4, <1>5, <1>10, Constants DEF Within
<1>12. ASSUME Settled(events') PROVE spotless'
  <2>1. events.reset_recovered /\ healthy
    BY <1>6, <1>12 DEF Settled
  <2>2. events'.reset_observed = events'.reset_expected
    BY <1>12 DEF Settled
  <2>3. events.reset_observed = events.reset_expected /\ o.errors = Streams
    BY <1>4, <1>5, <1>10, <2>2, Constants
  <2>4. Settled(events)
    BY <1>5, <1>6, <1>12, <2>1, <2>3 DEF Settled
  <2>5. spotless
    BY <1>2, <2>4 DEF Ledger
  <2>. QED BY <1>1, <2>1, <2>3, <2>5 DEF Note
<1>13. Ledger'
  BY <1>11, <1>12 DEF Ledger
<1>14. PassMeansEveryCycle'
  BY <1>3, NotPassed
<1>15. Hits'
  <2>1. events'.restarts = events.restarts /\ events'.disrupted = events.disrupted
    BY <1>1, <1>2 DEF Events
  <2>. QED BY <1>1, <2>1, SameHits DEF IInv, Note
<1>. QED BY <1>9, <1>13, <1>14, <1>15 DEF IInv

LEMMA ElapsedKeeps ==
  ASSUME IInv, Elapsed
  PROVE  IInv'
<1>1. CASE now - start >= Target
  <2>1. pc' = "final" /\ UNCHANGED <<now, events, spotless, quiet, samples, sampler, leak, rss>>
    BY <1>1 DEF Elapsed, gateway, ledger
  <2>2. Types /\ Ledger /\ Hits
    BY DEF IInv
  <2>3. Types'
    BY <2>1, <2>2 DEF Types, Phases
  <2>. QED BY <2>1, <2>2, <2>3, SameLedger, SameHits, NotPassed DEF IInv
<1>2. CASE ~(now - start >= Target)
  <2>1. pc' = "steady" /\ Tick(FALSE) /\ UNCHANGED <<events, ledger>>
    BY <1>2 DEF Elapsed
  <2>. QED BY <2>1, PlainKeeps DEF Phases
<1>. QED BY <1>1, <1>2

LEMMA FinalKeeps ==
  ASSUME IInv, Final
  PROVE  IInv'
<1>1. PICK healthy \in BOOLEAN, kept \in BOOLEAN :
        events' = [events EXCEPT !.final_probe = healthy, !.master_kept = kept]
  BY DEF Final
<1>2. events \in Events /\ Types /\ Ledger
  BY DEF IInv, Types
<1>3. pc' = "evaluate" /\ Tick(FALSE) /\ UNCHANGED <<spotless, quiet>>
  BY DEF Final, ledger
<1>4. events' \in Events
  BY <1>1, <1>2 DEF Events
<1>5. Types'
  BY <1>2, <1>3, <1>4, TickTypes DEF Types, Phases
<1>6. Within(events') = Within(events) /\ Settled(events') = Settled(events)
  BY <1>1, <1>2 DEF Events, Within, Settled
<1>7. Ledger'
  BY <1>2, <1>3, <1>6 DEF Ledger
<1>8. Hits'
  <2>1. events'.restarts = events.restarts /\ events'.disrupted = events.disrupted
    BY <1>1, <1>2 DEF Events
  <2>. QED BY <1>3, <2>1, SameHits DEF IInv
<1>. QED BY <1>3, <1>5, <1>7, <1>8, NotPassed DEF IInv

(* Only a soak without a reason against it passes. *)
LEMMA EvaluateKeeps ==
  ASSUME IInv, Evaluate
  PROVE  IInv'
<1>1. UNCHANGED <<now, events, sampler, samples, leak, rss, spotless, quiet>>
  BY DEF Evaluate, gateway, ledger
<1>2. Types /\ Ledger /\ Hits
  BY DEF IInv
<1>3. pc' \in {"link", "failed"}
  BY DEF Evaluate
<1>4. Types'
  BY <1>1, <1>2, <1>3 DEF Types, Phases
<1>5. Ledger' /\ Hits'
  BY <1>1, <1>2, SameLedger, SameHits
<1>6. CASE pc' = "link"
  <2>1. EventReasons(events) = {}
    BY <1>6 DEF Evaluate, SoakPasses
  <2>2. Settled(events) /\ events.disrupted
    BY <2>1, NoEventReason DEF Settled
  <2>3. spotless /\ quiet < events.restarts
    BY <1>2, <2>2 DEF Ledger, Hits
  <2>4. PassMeansEveryCycle'
    BY <1>1, <2>3 DEF PassMeansEveryCycle
  <2>. QED BY <1>4, <1>5, <2>4 DEF IInv
<1>7. CASE pc' # "link"
  BY <1>3, <1>4, <1>5, <1>7, NotPassed DEF IInv
<1>. QED BY <1>6, <1>7

LEMMA LinkKeeps ==
  ASSUME IInv, Link
  PROVE  IInv'
<1>1. UNCHANGED <<now, events, sampler, samples, leak, rss, spotless, quiet>>
  BY DEF Link, gateway, ledger
<1>2. Types /\ Ledger /\ Hits
  BY DEF IInv
<1>3. pc = "link" /\ pc' \in {"linked", "passed"}
  BY DEF Link
<1>4. Types'
  BY <1>1, <1>2, <1>3 DEF Types, Phases
<1>5. Ledger' /\ Hits'
  BY <1>1, <1>2, SameLedger, SameHits
<1>6. spotless /\ quiet < events.restarts
  BY <1>3 DEF IInv, PassMeansEveryCycle, Passed
<1>7. PassMeansEveryCycle'
  BY <1>1, <1>6 DEF PassMeansEveryCycle
<1>. QED BY <1>4, <1>5, <1>7 DEF IInv

(* What dies beside the script touches neither the events nor the samples. *)
LEMMA DeathsKeep ==
  ASSUME IInv, SamplerDies \/ IdleWorkerDies
  PROVE  IInv'
<1>1. UNCHANGED <<pc, now, events, samples, spotless, quiet>>
  BY DEF SamplerDies, IdleWorkerDies, ledger
<1>2. Types /\ Ledger /\ Hits
  BY DEF IInv
<1>3. rss' \in Nat /\ leak' \in Nat
  BY <1>2, Constants DEF Types, SamplerDies, IdleWorkerDies, Worker, gateway
<1>4. sampler' \in BOOLEAN
  BY <1>2 DEF Types, SamplerDies, IdleWorkerDies
<1>5. Types'
  BY <1>1, <1>2, <1>3, <1>4 DEF Types
<1>6. Ledger' /\ Hits'
  BY <1>1, <1>2, SameLedger, SameHits
<1>7. PassMeansEveryCycle'
  BY <1>1 DEF IInv, PassMeansEveryCycle, Passed
<1>. QED BY <1>5, <1>6, <1>7 DEF IInv

-----------------------------------------------------------------------------
(* The theorems *)

LEMMA InitEstablishes ==
  ASSUME Init
  PROVE  IInv
<1>1. pc = "sampler" /\ events = NoEvents /\ spotless = TRUE /\ quiet = 0
  BY DEF Init
<1>2. events \in Events
  BY <1>1 DEF NoEvents, Events
<1>3. samples \in Seq(Rows)
  BY EmptySeq DEF Init
<1>4. now \in Nat /\ rss \in Nat /\ leak \in Nat
  BY Constants DEF Init
<1>5. sampler \in BOOLEAN
  BY DEF Init
<1>6. Types
  BY <1>1, <1>2, <1>3, <1>4, <1>5 DEF Types, Phases
<1>7. Within(events)
  BY <1>1 DEF NoEvents, Within
<1>8. Ledger
  BY <1>1, <1>7 DEF Ledger
<1>9. PassMeansEveryCycle
  BY <1>1 DEF PassMeansEveryCycle, Passed
<1>10. Hits
  BY <1>1 DEF NoEvents, Hits
<1>. QED BY <1>6, <1>8, <1>9, <1>10 DEF IInv

LEMMA NextKeeps ==
  ASSUME IInv, [Next]_vars
  PROVE  IInv'
<1>1. CASE UNCHANGED vars
  <2>1. UNCHANGED <<pc, now, events, samples, spotless, quiet, sampler, leak, rss>>
    BY <1>1 DEF vars, gateway, ledger
  <2>2. Types' /\ PassMeansEveryCycle'
    BY <2>1 DEF IInv, Types, PassMeansEveryCycle, Passed
  <2>3. Ledger' /\ Hits'
    BY <2>1, SameLedger, SameHits DEF IInv
  <2>. QED BY <2>2, <2>3 DEF IInv
<1>2. CASE StartSampler
  BY <1>2, PlainKeeps DEF StartSampler, Phases
<1>3. CASE Warmup
  BY <1>3, PlainKeeps DEF Warmup, Phases
<1>4. CASE Steady
  BY <1>4, LoadKeeps DEF Steady, Phases
<1>5. CASE Churn
  BY <1>5, LoadKeeps DEF Churn, Phases
<1>6. CASE Cancel
  BY <1>6, CancelKeeps
<1>7. CASE RestartBackend
  BY <1>7, RestartKeeps
<1>8. CASE RestartFails
  BY <1>8, PlainKeeps DEF RestartFails, Phases
<1>9. CASE Recover
  BY <1>9, RecoverKeeps
<1>10. CASE TransportReset
  BY <1>10, ResetKeeps
<1>11. CASE Elapsed
  BY <1>11, ElapsedKeeps
<1>12. CASE Final
  BY <1>12, FinalKeeps
<1>13. CASE Evaluate
  BY <1>13, EvaluateKeeps
<1>14. CASE Link
  BY <1>14, LinkKeeps
<1>15. CASE SamplerDies \/ IdleWorkerDies
  BY <1>15, DeathsKeep
<1>. QED
  BY <1>1, <1>2, <1>3, <1>4, <1>5, <1>6, <1>7, <1>8, <1>9, <1>10, <1>11, <1>12, <1>13,
     <1>14, <1>15 DEF Next, Script

LEMMA Invariance == Spec => []IInv
BY InitEstablishes, NextKeeps, PTL DEF Spec

(* PassMeansEveryCycle: of a soak that passes, however long, no load failed, *)
(* every cancellation and reset that was asked for happened, and every       *)
(* recovery succeeded; and of its backend restarts at least one disrupted a  *)
(* stream.                                                                   *)
THEOREM PassIsSpotless == Spec => []PassMeansEveryCycle
<1>1. IInv => PassMeansEveryCycle
  BY DEF IInv
<1>. QED BY <1>1, Invariance, PTL

-----------------------------------------------------------------------------
(* How long a soak takes, whatever dies beside it *)

InCycle ==
  pc \in {"steady", "churn", "cancel", "restart", "recover", "reset", "elapsed"}

(* The ticks that have passed in this cycle, at most. *)
TicksIn ==
  CASE pc = "steady" -> 0 [] pc = "churn" -> 1 [] pc = "cancel" -> 2
    [] pc = "restart" -> 3 [] pc = "recover" -> 4 [] pc = "reset" -> 5
    [] pc = "elapsed" -> 6

(* The clock runs past the target in the last cycle only. *)
InTime == InCycle => now - start <= Target + TicksIn

Clock ==
  /\ pc \in Phases
  /\ now \in Nat /\ start \in Nat /\ start <= now
  /\ InTime

(* The script's steps that are still to come, at most. *)
StepsLeft ==
  IF InCycle THEN (Target + 6 - (now - start)) + 4
  ELSE CASE pc = "sampler"  -> Target + 12
         [] pc = "warmup"   -> Target + 11
         [] pc = "final"    -> 3
         [] pc = "evaluate" -> 2
         [] pc = "link"     -> 1
         [] OTHER           -> 0

Ticks == now' = now + 1 /\ start' = start

(* What the script's steps do to the clock. *)
Moves ==
  \/ pc = "sampler" /\ pc' \in {"warmup", "failed"} /\ Ticks
  \/ pc = "warmup" /\ pc' \in {"steady", "failed"} /\ now' = now + 1 /\ start' = now'
  \/ pc = "steady" /\ pc' = "churn" /\ Ticks
  \/ pc = "churn" /\ pc' = "cancel" /\ Ticks
  \/ pc = "cancel" /\ pc' \in {"restart", "reset"} /\ Ticks
  \/ pc = "restart" /\ pc' \in {"recover", "failed"} /\ Ticks
  \/ pc = "recover" /\ pc' = "reset" /\ Ticks
  \/ pc = "reset" /\ pc' = "elapsed" /\ Ticks
  \/ pc = "elapsed" /\ pc' = "steady" /\ ~(now - start >= Target) /\ Ticks
  \/ pc = "elapsed" /\ pc' = "final" /\ now - start >= Target /\ UNCHANGED <<now, start>>
  \/ pc = "final" /\ pc' = "evaluate" /\ Ticks
  \/ pc = "evaluate" /\ pc' \in {"link", "failed"} /\ UNCHANGED <<now, start>>
  \/ pc = "link" /\ pc' \in {"linked", "passed"} /\ UNCHANGED <<now, start>>

LEMMA ScriptMoves ==
  ASSUME Script
  PROVE  Moves
<1>1. CASE StartSampler
  BY <1>1 DEF StartSampler, Tick, Moves, Ticks
<1>2. CASE Warmup
  BY <1>2 DEF Warmup, Tick, Moves, Ticks
<1>3. CASE Steady
  BY <1>3 DEF Steady, Load, Tick, Moves, Ticks
<1>4. CASE Churn
  BY <1>4 DEF Churn, Load, Tick, Moves, Ticks
<1>5. CASE Cancel
  BY <1>5 DEF Cancel, Tick, Moves, Ticks
<1>6. CASE RestartBackend
  BY <1>6 DEF RestartBackend, Tick, Moves, Ticks
<1>7. CASE RestartFails
  BY <1>7 DEF RestartFails, Tick, Moves, Ticks
<1>8. CASE Recover
  BY <1>8 DEF Recover, Tick, Moves, Ticks
<1>9. CASE TransportReset
  BY <1>9 DEF TransportReset, Tick, Moves, Ticks
<1>10. CASE Elapsed
  BY <1>10 DEF Elapsed, Tick, Moves, Ticks
<1>11. CASE Final
  BY <1>11 DEF Final, Tick, Moves, Ticks
<1>12. CASE Evaluate
  BY <1>12 DEF Evaluate, Moves
<1>13. CASE Link
  BY <1>13 DEF Link, Moves
<1>. QED
  BY <1>1, <1>2, <1>3, <1>4, <1>5, <1>6, <1>7, <1>8, <1>9, <1>10, <1>11, <1>12, <1>13
  DEF Script

LEMMA DeathsWait ==
  ASSUME SamplerDies \/ IdleWorkerDies \/ UNCHANGED vars
  PROVE  UNCHANGED <<pc, now, start>>
BY DEF SamplerDies, IdleWorkerDies, vars

LEMMA MovesInTime ==
  ASSUME Clock, Moves
  PROVE  Clock' /\ StepsLeft \in Nat /\ StepsLeft' \in Nat /\ StepsLeft' < StepsLeft
<1> USE Constants DEF Clock, InTime, InCycle, TicksIn, Phases
<1>1. now' \in Nat /\ start' \in Nat /\ start' <= now' /\ pc' \in Phases
  BY DEF Moves, Ticks
<1>2. InTime'
  BY DEF Moves, Ticks
<1>3. StepsLeft \in Nat
  BY DEF Moves, StepsLeft
<1>4. StepsLeft' \in Nat /\ StepsLeft' < StepsLeft
  BY DEF Moves, Ticks, StepsLeft
<1>. QED BY <1>1, <1>2, <1>3, <1>4

LEMMA InitClock == Init => Clock
BY DEF Init, Clock, InTime, InCycle, Phases

LEMMA NextClock == Clock /\ [Next]_vars => Clock'
<1> SUFFICES ASSUME Clock, [Next]_vars
             PROVE  Clock'
  OBVIOUS
<1>1. CASE Script
  BY <1>1, ScriptMoves, MovesInTime
<1>2. CASE UNCHANGED <<pc, now, start>>
  BY <1>2 DEF Clock, InTime, InCycle, TicksIn
<1>. QED BY <1>1, <1>2, DeathsWait DEF Next

(* The script starts no cycle once the target has passed (run-soak.sh,      *)
(* 327-342): it overruns its target by one cycle at most, whatever its      *)
(* loads, restarts and probes come to.                                      *)
THEOREM OverrunsOneCycle == Spec => []InTime
<1>1. Clock => InTime
  BY DEF Clock
<1>. QED BY InitClock, NextClock, <1>1, PTL DEF Spec

-----------------------------------------------------------------------------
(* How much of it the samples of a linked soak span *)

LEMMA DurationType ==
  ASSUME NEW s \in Seq(Rows)
  PROVE  Duration(s) \in Int
<1>1. CASE Len(s) < 2
  BY <1>1 DEF Duration
<1>2. CASE ~(Len(s) < 2)
  <2>1. Len(s) \in 1..Len(s) /\ 1 \in 1..Len(s)
    BY <1>2
  <2>2. s[Len(s)] \in Rows /\ s[1] \in Rows
    BY <2>1, ElementOfSeq
  <2>3. Duration(s) = s[Len(s)].time - s[1].time
    BY <1>2 DEF Duration, Last
  <2>. QED BY <2>2, <2>3 DEF Rows
<1>. QED BY <1>1, <1>2

(* The loop begins no cycle later than this. *)
BegunInTime == began \in Nat /\ began - start <= Target

(* What Link asks for. *)
Spanned == pc = "linked" => Duration(samples) >= Target

WindowInv == Clock /\ BegunInTime /\ Spanned

LEMMA BeginMoves ==
  ASSUME Script
  PROVE  \/ UNCHANGED <<began, start>>
         \/ began' = now' /\ start' = now'
         \/ began' = now + 1 /\ start' = start /\ ~(now - start >= Target)
<1> USE DEF round, Tick
<1>1. CASE StartSampler \/ Steady \/ Churn \/ Cancel \/ RestartBackend
  BY <1>1 DEF StartSampler, Steady, Churn, Load, Cancel, RestartBackend
<1>2. CASE RestartFails \/ Recover \/ TransportReset \/ Final \/ Evaluate \/ Link
  BY <1>2 DEF RestartFails, Recover, TransportReset, Final, Evaluate, Link
<1>3. CASE Warmup
  BY <1>3 DEF Warmup
<1>4. CASE Elapsed
  BY <1>4 DEF Elapsed
<1>. QED BY <1>1, <1>2, <1>3, <1>4 DEF Script

LEMMA ScriptWindow ==
  ASSUME WindowInv, Script
  PROVE  WindowInv'
<1>1. Clock'
  BY ScriptMoves, MovesInTime DEF WindowInv
<1>2. now \in Nat /\ start \in Nat /\ now' \in Nat
  BY <1>1 DEF WindowInv, Clock
<1>3. BegunInTime'
  BY <1>2, BeginMoves, Constants DEF WindowInv, BegunInTime
<1>4. ASSUME pc' = "linked" PROVE Duration(samples') >= Target
  <2>1. pc = "link"
    BY <1>4, ScriptMoves DEF Moves
  <2>2. Link
    BY <2>1 DEF Script, StartSampler, Warmup, Steady, Churn, Load, Cancel, RestartBackend,
             RestartFails, Recover, TransportReset, Elapsed, Final, Evaluate
  <2>3. samples' = samples /\ Duration(samples) >= Target
    BY <1>4, <2>2 DEF Link
  <2>. QED BY <2>3
<1>. QED BY <1>1, <1>3, <1>4 DEF WindowInv, Spanned

LEMMA WindowKept ==
  ASSUME WindowInv, [Next]_vars
  PROVE  WindowInv'
<1>1. CASE Script
  BY <1>1, ScriptWindow
<1>2. CASE UNCHANGED <<pc, now, start, began, samples>>
  BY <1>2 DEF WindowInv, Clock, InTime, InCycle, TicksIn, BegunInTime, Spanned
<1>3. SamplerDies \/ IdleWorkerDies \/ UNCHANGED vars
        => UNCHANGED <<pc, now, start, began, samples>>
  BY DEF SamplerDies, IdleWorkerDies, vars, round
<1>. QED BY <1>1, <1>2, <1>3 DEF Next

(* SampledToLastCycle: however many cycles the loop runs and whenever the   *)
(* sampler dies, the samples of a soak that is linked span the time from    *)
(* the first cycle's begin to the last one's: the loop begins no cycle      *)
(* after the target, and the link asks for as much.                         *)
THEOREM LinkedIsSampled == Spec => []SampledToLastCycle
<1>1. Init => WindowInv
  BY InitClock, Constants DEF Init, WindowInv, BegunInTime, Spanned
<1>2. Types /\ WindowInv => SampledToLastCycle
  <2> SUFFICES ASSUME Types, WindowInv, pc = "linked"
               PROVE  Duration(samples) >= began - start
    BY DEF SampledToLastCycle
  <2>1. Duration(samples) \in Int
    BY DurationType DEF Types
  <2>2. Duration(samples) >= Target /\ began - start <= Target
    BY DEF WindowInv, Spanned, BegunInTime
  <2>3. began \in Nat /\ start \in Nat
    BY DEF WindowInv, BegunInTime, Clock
  <2>. QED BY <2>1, <2>2, <2>3, Constants
<1>3. IInv => Types
  BY DEF IInv
<1>. QED BY <1>1, <1>2, <1>3, WindowKept, Invariance, PTL DEF Spec

-----------------------------------------------------------------------------
(* How many steps it has *)

Nearer ==
  /\ StepsLeft \in Nat /\ StepsLeft' \in Nat
  /\ Script => StepsLeft' < StepsLeft
  /\ SamplerDies \/ IdleWorkerDies => pc' = pc /\ StepsLeft' = StepsLeft

(* The safety half of Ends: the script has Target + 12 steps at most, and   *)
(* the deaths of a sampler or of a worker between two loads neither move it *)
(* nor give it more.  That it always has a step is left to TLC.             *)
THEOREM ScriptRunsOut == Spec => [][Nearer]_vars
<1>1. Clock /\ [Next]_vars => [Nearer]_vars
  <2> SUFFICES ASSUME Clock, Next
               PROVE  Nearer
    OBVIOUS
  <2>1. StepsLeft \in Nat
    BY Constants DEF StepsLeft, Clock, InTime, InCycle, TicksIn, Phases
  <2>2. Script => StepsLeft' \in Nat /\ StepsLeft' < StepsLeft
    BY ScriptMoves, MovesInTime
  <2>3. SamplerDies \/ IdleWorkerDies => UNCHANGED <<pc, now, start>>
    BY DeathsWait
  <2>4. UNCHANGED <<pc, now, start>> => pc' = pc /\ StepsLeft' = StepsLeft
    BY DEF StepsLeft, InCycle
  <2>5. (SamplerDies \/ IdleWorkerDies) /\ Script => FALSE
    <3>1. Moves => pc' # pc
      BY DEF Moves
    <3>. QED BY <2>3, <3>1, ScriptMoves
  <2>. QED BY <2>1, <2>2, <2>3, <2>4, <2>5 DEF Nearer, Next
<1>. QED BY InitClock, NextClock, <1>1, PTL DEF Spec
=============================================================================
