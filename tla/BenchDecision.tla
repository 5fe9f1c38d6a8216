---------------------------- MODULE BenchDecision ----------------------------
(***************************************************************************)
(* perf/decision.py: from the repeats of one scenario to a recommendation. *)
(* Deltas are in hundredths of a percent and medians are doubled, so that  *)
(* both stay integers; a coefficient of variation is compared as a square. *)
(* What the script raises on is a predicate of its own (Decidable), and    *)
(* the result is defined where it holds.                                   *)
(***************************************************************************)
EXTENDS BenchReport

PolicyValid(policy) ==
  /\ policy.min_repeats >= 2
  /\ \A name \in DOMAIN policy : policy[name] >= 0

(* Twice the median. *)
Median2(values) ==
  LET sorted == SortSeq(values, <)
      n      == Len(values)
  IN IF n = 0 THEN 0
     ELSE sorted[(n + 1) \div 2] + sorted[(n + 2) \div 2]

(* pstdev / mean > limit, for a limit in hundredths. *)
CvAbove(values, limit) ==
  LET n   == Len(values)
      sum == Total(values)
      squares == Total([i \in DOMAIN values |-> values[i] * values[i]])
  IN 10000 * (n * squares - sum * sum) > limit * limit * sum * sum

(* In hundredths of a percent, rounded down.  None, of a legacy value of   *)
(* zero, counts as no change; a capacity of zero is not Decidable.         *)
DeltaPercent(native, legacy) ==
  IF legacy = 0 THEN 0 ELSE ((native - legacy) * 10000) \div legacy

Capacities(repeats, arch) ==
  [i \in DOMAIN repeats |-> repeats[i].capacity[arch].max_sustainable]

(* A mistake: the load that the better architecture sustains. *)
BestReference(repeats) ==
  Min({Max({repeats[i].capacity[arch].max_sustainable : arch \in Archs})
        : i \in DOMAIN repeats})

(* The load that every repeat of either architecture sustains. *)
CommonReference(repeats) ==
  Min(UNION {Range(Capacities(repeats, arch)) : arch \in Archs})

Comparable(capacity, n) == \A arch \in Archs : PointAt(capacity, arch, n) # {}

ReferenceDelta(capacity, n, name) ==
  LET value(arch) == (CHOOSE p \in PointAt(capacity, arch, n) : TRUE).metrics[name]
  IN DeltaPercent(value("native"), value("legacy"))

Decidable(repeats, policy) ==
  /\ Len(repeats) >= policy.min_repeats
  /\ Cardinality({repeats[i].host.fingerprint : i \in DOMAIN repeats}) = 1
  /\ CommonReference(repeats) > 0
  /\ \A i \in DOMAIN repeats : Comparable(repeats[i].capacity, CommonReference(repeats))

AggregateRepeats(repeats, policy) ==
  LET reference == CommonReference(repeats)
      median2(name) ==
        Median2([i \in DOMAIN repeats |-> ReferenceDelta(repeats[i].capacity, reference, name)])
      gain == DeltaPercent(Median2(Capacities(repeats, "native")),
                           Median2(Capacities(repeats, "legacy")))
      controlled == \A i \in DOMAIN repeats : repeats[i].host.strict /\ repeats[i].host.valid
      steady  == \A arch \in Archs : ~CvAbove(Capacities(repeats, arch), policy.max_capacity_cv)
      guarded == /\ median2("p99_ttfd") <= 2 * policy.max_ttfd_regression
                 /\ median2("p99_delivery") <= 2 * policy.max_delivery_regression
      benefit == \/ gain >= policy.min_capacity_gain
                 \/ median2("avg_cores") <= -2 * policy.min_cpu_saving
                 \/ median2("peak_rss") <= -2 * policy.min_rss_saving
  IN [fingerprint |-> repeats[1].host.fingerprint,
      controlled  |-> controlled,
      repeats     |-> Len(repeats),
      reference   |-> reference,
      preferred   |-> controlled /\ steady /\ guarded /\ benefit]

(* A directory without one of its two files is left out. *)
LoadRepeatSet(directories) ==
  LET kept == Ascending({i \in DOMAIN directories :
                           directories[i].measured /\ directories[i].examined})
  IN [k \in DOMAIN kept |-> directories[kept[k]]]
=============================================================================
