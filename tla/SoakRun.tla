------------------------------ MODULE SoakRun --------------------------------
(***************************************************************************)
(* perf/run-soak.sh in strict mode, as perf/run-rc-soak.sh runs it: cycles *)
(* of loads, cancellations, backend restarts and transport resets, counted *)
(* into events.json, beside a sampler process and a gateway whose worker   *)
(* may die and be replaced by its master.  One phase takes one tick, and   *)
(* the sampler takes one sample a tick for as long as it lives.            *)
(***************************************************************************)
EXTENDS SoakReport

CONSTANTS
  Target,          \* SOAK_DURATION_SECONDS, of run-rc-soak.sh
  RestartEvery,    \* RESTART_EVERY_CYCLES
  Streams,         \* streams of every load
  Policy,          \* soak policy
  BaseRss,         \* memory of a new worker
  Leaks,           \* what the gateway may leak a tick
  MaxDeaths        \* bound: worker deaths

ASSUME SoakAssumption ==
  /\ {Target, RestartEvery, Streams, Policy.min_duration} \subseteq Nat \ {0}
  /\ Target >= Policy.min_duration
  /\ SoakPolicyValid(Policy)
  /\ BaseRss \in Nat /\ Leaks \subseteq Nat

VARIABLES
  pc,        \* phase of the script, or "passed", "linked", "failed"
  now,       \* clock
  start,     \* start_epoch
  cycle,     \* cycle
  began,     \* history: when this cycle began
  events,    \* the counters that end in events.json
  sampler,   \* the sampler process lives
  samples,   \* rows of nginx.stats.tsv
  leak,      \* what this gateway leaks a tick
  rss,       \* memory of its worker
  deaths,    \* history: workers that died
  spotless,  \* history: no load failed, no stream was lost, every recovery succeeded
  quiet      \* history: backend restarts that disrupted no stream

gateway == <<leak, rss, deaths>>
round == <<cycle, began>>
ledger == <<spotless, quiet>>
vars == <<pc, now, start, round, events, sampler, samples, gateway, ledger>>

Over == pc \in {"passed", "linked", "failed"}

NoEvents ==
  [errors |-> FALSE, cancel_expected |-> 0, cancel_observed |-> 0,
   restarts |-> 0, disrupted |-> FALSE, restart_recovered |-> TRUE,
   reset_expected |-> 0, reset_observed |-> 0, reset_recovered |-> TRUE,
   final_probe |-> TRUE, master_kept |-> TRUE]

Init ==
  /\ pc = "sampler" /\ now = 0 /\ start = 0 /\ cycle = 1 /\ began = 0
  /\ events = NoEvents
  /\ sampler = TRUE /\ samples = <<>>
  /\ leak \in Leaks /\ rss = BaseRss /\ deaths = 0
  /\ spotless = TRUE /\ quiet = 0

-----------------------------------------------------------------------------

(* The worker dies, which the streams in flight notice, and a new one      *)
(* starts with little memory.                                              *)
Worker(died) ==
  /\ died => deaths < MaxDeaths
  /\ deaths' = IF died THEN deaths + 1 ELSE deaths
  /\ rss' = IF died THEN BaseRss ELSE rss + leak
  /\ UNCHANGED leak

Tick(died) ==
  /\ now' = now + 1
  /\ samples' = IF sampler THEN Append(samples, [time |-> now, rss |-> rss]) ELSE samples
  /\ Worker(died)
  /\ UNCHANGED sampler

Note(well) == spotless' = (spotless /\ well) /\ UNCHANGED quiet

(* What the load generator reports: its exit code, and summary_int of two  *)
(* fields, which are 0 when it left no readable file.                      *)
Outcomes ==
  {o \in [rc : {0, 1}, errors : 0..Streams, cancelled : 0..Streams] :
     /\ o.errors + o.cancelled <= Streams
     /\ o.errors > 0 => o.rc = 1}

Noticed(o, died) == died => o.errors > 0

(* rc # 0 counts for one error at least; only a sum of zero matters. *)
Unexpected(o) == o.rc # 0

(* A mistake: waiting for samples without looking at the sampler. *)
StartSamplerPatiently ==
  /\ pc = "sampler" /\ sampler
  /\ pc' = "warmup"
  /\ Tick(FALSE)
  /\ UNCHANGED <<start, round, events, ledger>>

(* The loop that waits for the first samples. *)
StartSampler ==
  /\ pc = "sampler"
  /\ IF sampler THEN pc' = "warmup" ELSE pc' = "failed"
  /\ Tick(FALSE)
  /\ UNCHANGED <<start, round, events, ledger>>

Warmup ==
  /\ pc = "warmup"
  /\ \E healthy \in BOOLEAN : pc' = IF healthy THEN "steady" ELSE "failed"
  /\ Tick(FALSE)
  /\ start' = now' /\ began' = now'
  /\ UNCHANGED <<cycle, events, ledger>>

Load(phase, next) ==
  /\ pc = phase
  /\ \E o \in {p \in Outcomes : p.cancelled = 0}, died \in BOOLEAN :
       /\ Noticed(o, died)
       /\ events' = [events EXCEPT !.errors = @ \/ Unexpected(o)]
       /\ Note(o.rc = 0)
       /\ Tick(died)
  /\ pc' = next
  /\ UNCHANGED <<start, round>>

Steady == Load("steady", "churn")
Churn  == Load("churn", "cancel")

Cancel ==
  /\ pc = "cancel"
  /\ \E o \in Outcomes, died \in BOOLEAN :
       /\ Noticed(o, died)
       /\ events' = [events EXCEPT !.cancel_expected = @ + Streams,
                                   !.cancel_observed = @ + o.cancelled,
                                   !.errors = @ \/ Unexpected(o)]
       /\ Note(o.cancelled = Streams /\ o.rc = 0)
       /\ Tick(died)
  /\ pc' = IF events.restarts = 0 \/ cycle % RestartEvery = 0 THEN "restart" ELSE "reset"
  /\ UNCHANGED <<start, round>>

(* A load in the background, with the backend restarted under it. *)
RestartBackend ==
  /\ pc = "restart"
  /\ \E o \in {p \in Outcomes : p.cancelled = 0}, died \in BOOLEAN :
       /\ Noticed(o, died)
       /\ events' = [events EXCEPT !.restarts = @ + 1,
                                   !.disrupted = @ \/ o.errors > 0]
       /\ quiet' = IF o.errors = 0 THEN quiet + 1 ELSE quiet
       /\ Tick(died)
  /\ pc' = "recover"
  /\ UNCHANGED <<start, round, spotless>>

RestartFails ==
  /\ pc = "restart"
  /\ pc' = "failed"
  /\ Tick(FALSE)
  /\ UNCHANGED <<start, round, events, ledger>>

(* A mistake: the flag of the last probe. *)
RecoverLast ==
  /\ pc = "recover"
  /\ \E healthy \in BOOLEAN :
       /\ events' = [events EXCEPT !.restart_recovered = healthy]
       /\ Note(healthy)
  /\ Tick(FALSE)
  /\ pc' = "reset"
  /\ UNCHANGED <<start, round>>

(* run_probe: 40 attempts, of which one must succeed. *)
Recover ==
  /\ pc = "recover"
  /\ \E healthy \in BOOLEAN :
       /\ events' = [events EXCEPT !.restart_recovered = @ /\ healthy]
       /\ Note(healthy)
  /\ Tick(FALSE)
  /\ pc' = "reset"
  /\ UNCHANGED <<start, round>>

TransportReset ==
  /\ pc = "reset"
  /\ \E o \in {p \in Outcomes : p.cancelled = 0}, died \in BOOLEAN, healthy \in BOOLEAN :
       /\ Noticed(o, died)
       /\ events' = [events EXCEPT !.reset_expected = @ + Streams,
                                   !.reset_observed = @ + o.errors,
                                   !.reset_recovered = @ /\ healthy]
       /\ Note(o.errors = Streams /\ healthy)
       /\ Tick(died)
  /\ pc' = "elapsed"
  /\ UNCHANGED <<start, round>>

(* The end of a cycle, with the pause before the next one. *)
Elapsed ==
  /\ pc = "elapsed"
  /\ IF now - start >= Target
     THEN pc' = "final" /\ UNCHANGED <<now, samples, sampler, gateway, round>>
     ELSE /\ pc' = "steady" /\ cycle' = cycle + 1
          /\ Tick(FALSE) /\ began' = now'
  /\ UNCHANGED <<start, events, ledger>>

(* The final probe, the master's pid and the container's restart count,    *)
(* and one more interval for the sampler.                                  *)
Final ==
  /\ pc = "final"
  /\ \E healthy, kept \in BOOLEAN :
       events' = [events EXCEPT !.final_probe = healthy, !.master_kept = kept]
  /\ Tick(FALSE)
  /\ pc' = "evaluate"
  /\ UNCHANGED <<start, round, ledger>>

Evaluate ==
  /\ pc = "evaluate"
  /\ pc' = IF samples # <<>> /\ SoakPasses(samples, events, Policy) THEN "link" ELSE "failed"
  /\ UNCHANGED <<now, start, round, events, sampler, samples, gateway, ledger>>

(* A mistake: the linkage keeps to its default, not to the target. *)
LinkByPolicy ==
  /\ pc = "link"
  /\ pc' = IF Duration(samples) >= Policy.min_duration THEN "linked" ELSE "passed"
  /\ UNCHANGED <<now, start, round, events, sampler, samples, gateway, ledger>>

(* rc_soak.py --min-duration-seconds. *)
Link ==
  /\ pc = "link"
  /\ pc' = IF Duration(samples) >= Target THEN "linked" ELSE "passed"
  /\ UNCHANGED <<now, start, round, events, sampler, samples, gateway, ledger>>

-----------------------------------------------------------------------------

(* The sampler runs under set -e and ends with the first read that fails;  *)
(* the script looks at it only while it starts.                            *)
SamplerDies ==
  /\ sampler /\ pc \notin {"evaluate", "link"} /\ ~Over
  /\ sampler' = FALSE
  /\ UNCHANGED <<pc, now, start, round, events, samples, gateway, ledger>>

(* Between two loads, with no stream in flight. *)
IdleWorkerDies ==
  /\ ~Over /\ pc \notin {"evaluate", "link"} /\ deaths < MaxDeaths
  /\ Worker(TRUE)
  /\ UNCHANGED <<pc, now, start, round, events, sampler, samples, ledger>>

Script ==
  \/ StartSampler \/ Warmup
  \/ Steady \/ Churn \/ Cancel \/ RestartBackend \/ RestartFails \/ Recover
  \/ TransportReset \/ Elapsed \/ Final \/ Evaluate \/ Link

Next == Script \/ SamplerDies \/ IdleWorkerDies

(* The script never waits for anything without a bound: loads time out and *)
(* probes are counted.                                                     *)
Spec == Init /\ [][Next]_vars /\ WF_vars(Script)

-----------------------------------------------------------------------------
(* Properties *)

Passed == pc \in {"link", "linked", "passed"}

(* A soak that passes had no failed load, no stream that was not cancelled *)
(* or reset as asked, and no failed probe after a restart or a reset: in   *)
(* these sums and flags no cycle makes up for what another one lacked.  Of *)
(* its restarts at least one disrupted a stream.  Not each of them:        *)
(* run-soak.sh:302-306 keeps one flag and one sum for all restarts, so     *)
(* that one disruption stands for a later restart that hit nothing.        *)
PassMeansEveryCycle == Passed => spotless /\ quiet < events.restarts

(* Nobody looks at the sampler once it has started, and it may be long     *)
(* dead when the final probe is answered, in spite of run-soak.sh:352.     *)
(* But of a soak that is linked to the benchmark it has missed little: its *)
(* samples span as much time as lies between the first cycle's begin and   *)
(* the last one's, however many cycles the loop of run-soak.sh ran, so     *)
(* that at most the last cycle and the time of the start are missing.      *)
SampledToLastCycle == pc = "linked" => Duration(samples) >= began - start

(* The soak ends, whatever dies beside it. *)
Ends == <>Over

(* docs/SOAK_TESTING.md:178: a worker that restarts by itself is not       *)
(* masked by a successful final probe.                                     *)
NoRestartMasked == Passed => deaths = 0
=============================================================================
