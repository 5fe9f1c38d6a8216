----------------------------- MODULE SoakReport ------------------------------
(***************************************************************************)
(* perf/soak.py: the verdict on a soak from its memory samples and its     *)
(* event counters.  Time is in ticks and memory in small units; a slope is *)
(* compared by its numerator and denominator.                              *)
(***************************************************************************)
EXTENDS Integers, Sequences, SequencesExt, FiniteSetsExt, Functions

SoakPolicyValid(policy) ==
  /\ policy.min_duration > 0 /\ policy.min_samples >= 3
  /\ policy.warmup >= 0 /\ policy.warmup < policy.min_duration
  /\ policy.max_slope >= 0 /\ policy.max_growth >= 0 /\ policy.max_peak > 0

SumOver(values) == FoldFunction(LAMBDA x, y : x + y, 0, values)

(* Least squares: the slope exceeds the limit. *)
SlopeAbove(points, limit) ==
  LET n  == Len(points)
      x  == SumOver([i \in DOMAIN points |-> points[i].time])
      y  == SumOver([i \in DOMAIN points |-> points[i].rss])
      xx == SumOver([i \in DOMAIN points |-> points[i].time * points[i].time])
      xy == SumOver([i \in DOMAIN points |-> points[i].time * points[i].rss])
  IN n * xy - x * y > limit * (n * xx - x * x)

Duration(samples) ==
  IF Len(samples) < 2 THEN 0 ELSE Last(samples).time - Head(samples).time

Trend(samples, policy) ==
  SelectSeq(samples, LAMBDA p : p.time >= Head(samples).time + policy.warmup)

MemoryReasons(samples, policy) ==
  LET trend  == Trend(samples, policy)
      growth == Last(trend).rss - Head(trend).rss
      peak   == Max({samples[i].rss : i \in DOMAIN samples})
      reason(condition, name) == IF condition THEN {name} ELSE {}
  IN UNION {
       reason(Len(samples) < policy.min_samples, "samples"),
       reason(Duration(samples) < policy.min_duration, "duration"),
       reason(Len(trend) < 2, "trend_samples"),
       reason(Len(trend) >= 2 /\ SlopeAbove(trend, policy.max_slope), "rss_slope"),
       reason(Len(trend) >= 2 /\ growth > policy.max_growth, "rss_growth"),
       reason(peak > policy.max_peak, "peak_rss")}

EventReasons(e) ==
  LET reason(condition, name) == IF condition THEN {name} ELSE {}
  IN UNION {
       reason(e.errors, "errors"),
       reason(e.cancel_expected <= 0 \/ e.cancel_observed # e.cancel_expected,
              "cancellation_accounting"),
       reason(e.restarts <= 0 \/ ~e.restart_recovered, "backend_recovery"),
       reason(~e.disrupted, "backend_disruption"),
       reason(e.reset_expected <= 0 \/ ~e.reset_recovered, "transport_recovery"),
       reason(e.reset_expected <= 0 \/ e.reset_observed # e.reset_expected,
              "transport_reset_accounting"),
       reason(~e.final_probe, "final_probe"),
       reason(~e.master_kept, "nginx_restart")}

(* evaluate_soak, strict; parse_stats raises on a file without rows. *)
SoakPasses(samples, events, policy) ==
  MemoryReasons(samples, policy) \union EventReasons(events) = {}
=============================================================================
