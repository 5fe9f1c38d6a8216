----------------------------- MODULE BenchReport -----------------------------
(***************************************************************************)
(* perf/report.py and perf/capacity.py: result files to rows, rows to the  *)
(* capacity of each architecture.  Times, CPU and memory are small         *)
(* integers; percentiles, rates and core averages are in hundredths.       *)
(***************************************************************************)
EXTENDS Integers, Sequences, FiniteSets, SequencesExt, FiniteSetsExt, Functions

Archs == {"legacy", "native"}

Total(f) == FoldFunction(LAMBDA x, y : x + y, 0, f)

-----------------------------------------------------------------------------
(* report.py *)

(* The 99th percentile, interpolated, in hundredths. *)
Percentile(values) ==
  LET sorted == SortSeq(values, <)
      pos    == 99 * (Len(values) - 1)
      lo     == pos \div 100
      hi     == Min({lo + 1, Len(values) - 1})
  IN IF values = <<>> THEN 0
     ELSE 100 * sorted[lo + 1] + (sorted[hi + 1] - sorted[lo + 1]) * (pos % 100)

Stamps(rows) == {rows[i].timestamp : i \in DOMAIN rows}
RowsOf(rows, container) == SelectSeq(rows, LAMBDA row : row.container = container)
Containers(rows) == {rows[i].container : i \in DOMAIN rows}

(* What read_stats does not raise on. *)
StatsReadable(rows) ==
  /\ Cardinality(Stamps(rows)) >= 2
  /\ \A c \in Containers(rows) :
        /\ Len(RowsOf(rows, c)) >= 2
        /\ Last(RowsOf(rows, c)).cpu >= Head(RowsOf(rows, c)).cpu

ReadStats(rows) ==
  [cpu  |-> Total([c \in Containers(rows) |->
                     Last(RowsOf(rows, c)).cpu - Head(RowsOf(rows, c)).cpu]),
   rss  |-> Max({Total([i \in {j \in DOMAIN rows : rows[j].timestamp = ts} |-> rows[i].rss])
                  : ts \in Stamps(rows)})]

(* The runs of one architecture at one load: sums, one p99 over all the    *)
(* streams that ended well, the highest of the peaks.                      *)
Aggregate(files) ==
  LET streams == FlattenSeq([i \in DOMAIN files |-> files[i].streams])
      sound   == SelectSeq(streams, LAMBDA stream : ~stream.error)
      stats   == [i \in DOMAIN files |-> ReadStats(files[i].stats)]
  IN [runs   |-> Len(files),
      errors |-> Len(streams) - Len(sound),
      wall   |-> Total([i \in DOMAIN files |-> files[i].wall]),
      cpu    |-> Total([i \in DOMAIN files |-> stats[i].cpu]),
      peak_rss |-> Max({stats[i].rss : i \in DOMAIN files}),
      p99_ttfd |-> Percentile([i \in DOMAIN sound |-> sound[i].ttfd]),
      p99_delivery |-> Percentile(FlattenSeq([i \in DOMAIN sound |-> sound[i].delivery]))]

RunsOf(files, arch, n) == SelectSeq(files, LAMBDA file : file.arch = arch /\ file.load = n)

(* The loads that have runs of both architectures: one row for each. *)
LoadsOf(files) ==
  {n \in {files[i].load : i \in DOMAIN files} :
     \A arch \in Archs : \E i \in DOMAIN files : files[i].arch = arch /\ files[i].load = n}

Report(files) ==
  [n \in LoadsOf(files) |-> [arch \in Archs |-> Aggregate(RunsOf(files, arch, n))]]

-----------------------------------------------------------------------------
(* capacity.py; an SLO is a function from the configured metrics to their  *)
(* limits.                                                                 *)

Metrics == {"error_rate", "p99_delivery", "p99_ttfd", "avg_cores", "peak_rss"}

SLOValid(slo) ==
  /\ DOMAIN slo # {} /\ DOMAIN slo \subseteq Metrics
  /\ \A name \in DOMAIN slo : slo[name] >= 0
  /\ "error_rate" \in DOMAIN slo => slo["error_rate"] <= 100

NormalizedMetrics(n, raw) ==
  LET requested == n * raw.runs
  IN [error_rate   |-> IF requested > 0 THEN (100 * raw.errors) \div requested ELSE 100,
      avg_cores    |-> IF raw.wall > 0 THEN (100 * raw.cpu) \div raw.wall ELSE 0,
      peak_rss     |-> raw.peak_rss,
      p99_ttfd     |-> raw.p99_ttfd,
      p99_delivery |-> raw.p99_delivery]

ClassifyMetrics(metrics, slo) ==
  \A name \in DOMAIN slo : name \in DOMAIN metrics /\ metrics[name] <= slo[name]

NoStep == 0     \* None

(* A mistake: the last step that passes, whatever failed below it. *)
LastPassing(points) ==
  LET passed == {i \in DOMAIN points : points[i].pass}
      failed == DOMAIN points \ passed
  IN [max_sustainable |-> IF passed = {} THEN 0 ELSE points[Max(passed)].streams,
      first_failed    |-> IF failed = {} THEN NoStep ELSE points[Min(failed)].streams,
      points          |-> points]

(* The last step of the unbroken run of passes, and the first that fails. *)
ArchitectureCapacity(points) ==
  LET failed == {i \in DOMAIN points : ~points[i].pass}
      run    == IF failed = {} THEN Len(points) ELSE Min(failed) - 1
  IN [max_sustainable |-> IF run = 0 THEN 0 ELSE points[run].streams,
      first_failed    |-> IF failed = {} THEN NoStep ELSE points[Min(failed)].streams,
      points          |-> points]

Point(row, n, arch, slo) ==
  LET metrics == NormalizedMetrics(n, row[arch])
  IN [streams |-> n, pass |-> ClassifyMetrics(metrics, slo), metrics |-> metrics]

(* The elements of a set of numbers, in order. *)
Ascending(S) ==
  CHOOSE s \in [1..Cardinality(S) -> S] : \A i, j \in DOMAIN s : i < j => s[i] < s[j]

(* The report must have a row: the callers see to it. *)
EvaluateCapacity(report, slo) ==
  LET loads == Ascending(DOMAIN report)
  IN [arch \in Archs |->
        ArchitectureCapacity(
          [i \in DOMAIN loads |-> Point(report[loads[i]], loads[i], arch, slo)])]

PointAt(capacity, arch, n) ==
  {p \in Range(capacity[arch].points) : p.streams = n}

(* A mistake: one architecture that fails is enough. *)
EitherFailedAt(capacity, n) ==
  \E arch \in Archs : \E p \in PointAt(capacity, arch, n) : ~p.pass

(* An architecture without the point has not failed there. *)
BothFailedAt(capacity, n) ==
  \A arch \in Archs : \E p \in PointAt(capacity, arch, n) : ~p.pass
=============================================================================
